---- MODULE Spec2Model ----
(***************************************************************************)
(* A model of m3u8dl: the recursive playlist downloader                    *)
(* (internal/downloader), its path mapper (internal/filesystem) and the    *)
(* playlist rewriter.                                                      *)
(*                                                                         *)
(* A URL is the record of the parts url.Parse splits its text into:        *)
(*   [host, path, query]   path: a sequence of segments,                   *)
(*   segment = [stem, ext] stem: a sequence of name tokens, ext: the text  *)
(*                         from the last dot of the segment ("" if none).  *)
(* Two URL records are equal exactly when the URL strings are equal.       *)
(* A local path is a sequence of segments below the working directory.     *)
(***************************************************************************)
EXTENDS Naturals, Sequences, FiniteSets, TLC

VARIABLES
    flatten,      \* FileSystem.flatten
    urlToPath,    \* FileSystem.urlToPath : URL -> local path
    pathsInUse,   \* FileSystem.pathsInUse, as the set of paths mapped to true
    hash8,        \* the first 8 hex digits of sha256(url), per URL
    retLog,       \* observer: the paths GetLocalPath has returned, per URL, in call order
    concurrency,  \* Downloader.concurrency
    rewriteURLs,  \* Downloader.rewriteURLs
    include,      \* Downloader.include
    exclude,      \* Downloader.exclude
    web,          \* what the Fetcher serves: playlist URL -> its lines
    visited,      \* Downloader.visited, as the set of URLs mapped to true
    gs,           \* the goroutines: id -> [pc, url, isM3U8, pos, out]
    pools,        \* the worker pools of downloadURLs: id -> [queue, taken, errs, cap, live]
    fetchCount,   \* observer: Fetcher.Fetch invocations per URL
    failed,       \* observer: URLs whose task returned an error
    written,      \* observer: URLs whose WriteFile returned without error
    errLog,       \* observer: the Fetch and WriteFile errors, in the order they happened,
                  \* each with the task it happened in
    disk,         \* the sink: local path -> [url, data] last written there
    writtenAt,    \* observer: URL -> the local paths WriteFile wrote it to
    result,       \* what Download returned: <<>> while running, else <<r>>
    pathSep,      \* os.PathSeparator of the build
    relPending,   \* a GetRelativePath call between its two GetLocalPath calls
    relLog,       \* observer: the GetRelativePath calls that returned, in order
    base,         \* the URL text a playlist text was fetched from
    doc,          \* the playlist text: a sequence of lines
    parsed,       \* ParseM3U8's M3U8File so far: [n, URLs, IsM3U8]
    outLines,     \* RewriteM3U8URLs' output buffer, line by line
    resLog,       \* observer: the resolveURL calls made, as [ref, out, by, line]
    locks,        \* the goroutines holding Downloader.visitedLock and FileSystem.mu
    filterLog     \* observer: the shouldDownload calls on URL texts, as [url, keep]

fsVars == <<flatten, urlToPath, pathsInUse, hash8, retLog>>

cfgVars == <<concurrency, rewriteURLs, include, exclude, web>>

crawlVars == <<visited, gs, pools, fetchCount, failed, written, errLog, disk, writtenAt, result>>

relVars == <<pathSep, relPending, relLog>>

txtVars == <<base, doc, parsed, outLines, resLog>>

lockVars == <<locks>>

filterVars == <<filterLog>>

vars == <<fsVars, cfgVars, crawlVars, relVars, txtVars, lockVars, filterVars>>

----------------------------------------------------------------------------
(* URLs and paths *)

\* The M3U8File of ParseM3U8 before its first line: no URLs, an empty map.
NoDocument == [n |-> 0, URLs |-> <<>>, IsM3U8 |-> <<>>]

\* The zero value of the two mutexes: no goroutine holds either.
NoLocks == [visitedLock |-> {}, mu |-> {}]

Seg(stem, ext) == [stem |-> stem, ext |-> ext]

File(name, ext) == Seg(<<name>>, ext)

Dir(name) == Seg(<<name>>, "")

DotDot == Seg(<<"..">>, "")

Dot == Seg(<<".">>, "")

\* The element between two slashes, or after a last one.
Empty == Seg(<<>>, "")

URL(host, path, query) == [host |-> host, path |-> path, query |-> query]

\* FileSystem.outputDir
OutputDir == <<Dir("out")>>

\* filepath.Clean as filepath.Join applies it: an empty or a "." segment is
\* dropped, a ".." segment removes the segment before it; at the start of a
\* relative path it stays.
RECURSIVE CleanFrom(_, _)
CleanFrom(segs, acc) ==
    IF segs = <<>> THEN acc
    ELSE LET s == Head(segs) IN
         IF s = Dot \/ s = Empty THEN CleanFrom(Tail(segs), acc)
         ELSE IF s = DotDot
         THEN IF acc # <<>> /\ acc[Len(acc)] # DotDot
              THEN CleanFrom(Tail(segs), SubSeq(acc, 1, Len(acc) - 1))
              ELSE CleanFrom(Tail(segs), Append(acc, DotDot))
         ELSE CleanFrom(Tail(segs), Append(acc, s))

Clean(segs) == CleanFrom(segs, <<>>)

\* filepath.Join(dir, elems...)
Join(dir, segs) == Clean(dir \o segs)

\* filepath.Dir of a cleaned local path
DirOf(p) == IF p = <<>> THEN <<>> ELSE SubSeq(p, 1, Len(p) - 1)

----------------------------------------------------------------------------
(* internal/filesystem: the path mapper *)

\* The decimal text of the conflict counter.
CounterText(n) == <<"1", "2", "3", "4", "5", "6", "7", "8", "9">>[n]

\* generateFilenameFromURL: hash[:16] + ".bin"
generateFilenameFromURL(h, u) == Seg(<<h[u], "+8">>, ".bin")

\* resolveConflict's loop: the first counter whose path is not in use.
RECURSIVE conflictCounter(_, _, _, _)
conflictCounter(inUse, dir, f, n) ==
    LET p == Append(dir, Seg(f.stem \o <<"_", CounterText(n)>>, f.ext)) IN
    IF p \in inUse THEN conflictCounter(inUse, dir, f, n + 1) ELSE p

\* The mutant of resolveConflict without the counter loop.
resolveConflictNoCounter(inUse, h, originalPath, u) ==
    LET last == originalPath[Len(originalPath)] IN
    Append(DirOf(originalPath), Seg(last.stem \o <<"_", h[u]>>, last.ext))

\* resolveConflict(originalPath, urlStr): base_hash8.ext, then base_hash8_n.ext
resolveConflict(inUse, h, originalPath, u) ==
    LET dir  == DirOf(originalPath)
        last == originalPath[Len(originalPath)]
        f    == Seg(last.stem \o <<"_", h[u]>>, last.ext)
        newPath == Append(dir, f)
    IN  IF newPath \in inUse THEN conflictCounter(inUse, dir, f, 1) ELSE newPath

\* path.Base(parsedURL.Path), by segments: trailing slashes are stripped and
\* the last element is returned; <<>> stands for the "." and the "/" it
\* returns for an empty path and for a path of slashes only.
RECURSIVE pathBase(_)
pathBase(p) ==
    IF p = <<>> THEN <<>>
    ELSE IF p[Len(p)] = Empty THEN pathBase(SubSeq(p, 1, Len(p) - 1))
    ELSE <<p[Len(p)]>>

\* The file name of the flattened mode: the base of the path, or the
\* generated name when the base is "", "." or "/".
flatFilename(h, u) ==
    LET named(b) == IF b = <<>> \/ b = <<Dot>>
                    THEN generateFilenameFromURL(h, u)
                    ELSE b[1]
    IN  named(pathBase(u.path))

\* The mutant of freshPath that keeps a directory for the host.
freshPathWithHost(inUse, h, fl, u) ==
    IF fl
    THEN LET filename == flatFilename(h, u)
             localPath == Join(OutputDir, <<Dir(u.host), filename>>)
         IN  IF localPath \in inUse
             THEN resolveConflict(inUse, h, localPath, u)
             ELSE localPath
    ELSE Join(OutputDir, <<Dir(u.host)>> \o u.path)

\* The path GetLocalPath computes for a URL that has no cached path.
freshPath(inUse, h, fl, u) ==
    IF fl
    THEN LET filename == flatFilename(h, u)
             localPath == Join(OutputDir, <<filename>>)
         IN  IF localPath \in inUse
             THEN resolveConflict(inUse, h, localPath, u)
             ELSE localPath
    ELSE Join(OutputDir, u.path)

\* The mutant of GetLocalPath that never consults the cache.
GetLocalPathNoCache(u2p, inUse, h, fl, u) ==
    LET p == freshPath(inUse, h, fl, u) IN
    [path |-> p,
     urlToPath |-> [x \in DOMAIN u2p \cup {u} |-> IF x = u THEN p ELSE u2p[x]],
     pathsInUse |-> inUse \cup {p}]

\* FileSystem.GetLocalPath, one critical section of fs.mu: the returned
\* path and the two maps after the call.
GetLocalPath(u2p, inUse, h, fl, u) ==
    IF u \in DOMAIN u2p
    THEN [path |-> u2p[u], urlToPath |-> u2p, pathsInUse |-> inUse]
    ELSE LET p == freshPath(inUse, h, fl, u) IN
         [path |-> p,
          urlToPath |-> [x \in DOMAIN u2p \cup {u} |-> IF x = u THEN p ELSE u2p[x]],
          pathsInUse |-> inUse \cup {p}]

\* The observer's record of a returned path.
Logged(log, u, p) ==
    [x \in DOMAIN log \cup {u} |->
        IF x = u THEN Append(IF u \in DOMAIN log THEN log[u] ELSE <<>>, p)
        ELSE log[x]]

----------------------------------------------------------------------------
(* internal/filesystem: GetRelativePath *)

\* The length of the longest common prefix of two paths.
RECURSIVE commonLen(_, _)
commonLen(a, b) ==
    IF a # <<>> /\ b # <<>> /\ Head(a) = Head(b)
    THEN 1 + commonLen(Tail(a), Tail(b))
    ELSE 0

\* filepath.Rel(basepath, targpath) on cleaned relative paths, as an option:
\* <<>> for Rel's error (the base climbs above the common prefix), else
\* <<the relative path>>; "." is the empty relative path.
Rel(basepath, targpath) ==
    LET k    == commonLen(basepath, targpath)
        rest == SubSeq(basepath, k + 1, Len(basepath))
    IN  IF \E i \in 1..Len(rest) : rest[i] = DotDot
        THEN <<>>
        ELSE << [i \in 1..Len(rest) |-> DotDot]
                \o SubSeq(targpath, k + 1, Len(targpath)) >>

\* A text is the sequence of its tokens.  The extensions a name can end in:
Exts == {".ts", ".m3u8", ".key", ".bin"}

\* strings.Split(s, sep) for a one-token separator
RECURSIVE Split(_, _)
Split(s, sep) ==
    IF \A i \in 1..Len(s) : s[i] # sep THEN <<s>>
    ELSE LET i == CHOOSE k \in 1..Len(s) :
                      s[k] = sep /\ \A j \in 1..(k - 1) : s[j] # sep
         IN  <<SubSeq(s, 1, i - 1)>> \o Split(SubSeq(s, i + 1, Len(s)), sep)

\* The tokens of a path segment, and the segment of an element's tokens.
SegText(s) == s.stem \o (IF s.ext = "" THEN <<>> ELSE <<s.ext>>)

SegOf(e) ==
    IF e # <<>> /\ e[Len(e)] \in Exts
    THEN Seg(SubSeq(e, 1, Len(e) - 1), e[Len(e)])
    ELSE Seg(e, "")

\* A path as the text the build's filepath functions return, with the
\* build's separator; "." is the empty path.
RECURSIVE OSText(_, _)
OSText(p, sep) ==
    IF p = <<>> THEN <<".">>
    ELSE IF Len(p) = 1 THEN SegText(p[1])
    ELSE SegText(p[1]) \o <<sep>> \o OSText(Tail(p), sep)

\* filepath.ToSlash
ToSlash(s, sep) == [i \in 1..Len(s) |-> IF s[i] = sep THEN "/" ELSE s[i]]

\* The path a slash-separated text names.
TextPath(s) ==
    LET es == Split(s, "/") IN [i \in 1..Len(es) |-> SegOf(es[i])]

\* The mutant of relativePath that leaves out filepath.Dir.
relativePathFromFile(fromPath, toPath, sep) ==
    LET r == Rel(fromPath, toPath) IN
    IF r = <<>> THEN <<>> ELSE << ToSlash(OSText(r[1], sep), sep) >>

\* GetRelativePath after its two GetLocalPath calls: filepath.Dir,
\* filepath.Rel and filepath.ToSlash; <<>> is the error, else <<text>>.
relativePath(fromPath, toPath, sep) ==
    LET r == Rel(DirOf(fromPath), toPath) IN
    IF r = <<>> THEN <<>> ELSE << ToSlash(OSText(r[1], sep), sep) >>

----------------------------------------------------------------------------
(* internal/downloader: the parsed playlist *)

\* A playlist line that carries a reference: a bare line ("bare") or a
\* reference-bearing tag with one URI attribute ("tag"); ref is the
\* reference as resolveURL returns it.
Bare(u) == [kind |-> "bare", ref |-> u]

Tag(u) == [kind |-> "tag", ref |-> u]

\* shouldDownload's ext, strings.ToLower(filepath.Ext(urlStr)) cut at "?", for
\* the URLs of the crawl, which have no query and lower-case names.
ExtOf(u) == IF u.path = <<>> THEN "" ELSE u.path[Len(u.path)].ext

\* ParseM3U8: m3u8.URLs
URLsOf(lines) == [i \in 1..Len(lines) |-> lines[i].ref]

\* ParseM3U8: the IsM3U8 map after the first n lines. A tag's reference is
\* set to false unless its text ends in ".m3u8"; a bare line's reference
\* is set to whether its text ends in ".m3u8" or contains ".m3u8?".
RECURSIVE IsM3U8After(_, _)
IsM3U8After(lines, n) ==
    IF n = 0 THEN <<>>
    ELSE LET m == IsM3U8After(lines, n - 1)
             l == lines[n]
             set(v) == [x \in DOMAIN m \cup {l.ref} |-> IF x = l.ref THEN v ELSE m[x]]
         IN  IF l.kind = "tag"
             THEN IF ~(ExtOf(l.ref) = ".m3u8" /\ l.ref.query = "")
                  THEN set(FALSE) ELSE m
             ELSE set(ExtOf(l.ref) = ".m3u8")

\* isM3U8[urlStr] as downloadURLs reads it: false for a missing key.
IsM3U8(lines, u) ==
    LET m == IsM3U8After(lines, Len(lines)) IN
    IF u \in DOMAIN m THEN m[u] ELSE FALSE

\* shouldDownload's comparison: ext == e || ext == "."+e
extMatches(ext, e) == ext = e \/ ext = "." \o e

\* The mutant of shouldDownload that never drops a nested playlist.
shouldDownloadKeepPlaylists(inc, exc, u) ==
    \/ ExtOf(u) = ".m3u8"
    \/ /\ ~ \E e \in exc : extMatches(ExtOf(u), e)
       /\ (inc = {} \/ \E e \in inc : extMatches(ExtOf(u), e))

\* Downloader.shouldDownload
shouldDownload(inc, exc, u) ==
    /\ ~ \E e \in exc : extMatches(ExtOf(u), e)
    /\ (inc = {} \/ \E e \in inc : extMatches(ExtOf(u), e))

\* Downloader.filterURLs
filterURLs(inc, exc, urls) == SelectSeq(urls, LAMBDA u : shouldDownload(inc, exc, u))

----------------------------------------------------------------------------
(* The path mapper on its own: any sequence of GetLocalPath calls, as its  *)
(* callers (WriteFile, GetRelativePath, FileExists) make them.             *)

HashVals == {"h1", "h2"}

\* The URLs the calls are drawn from: the same path under two hosts and
\* with a query, a name that looks like a suffixed one, and a URL with no
\* path.
FsURLs ==
    { URL("a", <<Dir("v"), File("seg", ".ts")>>, ""),
      URL("b", <<Dir("v"), File("seg", ".ts")>>, ""),
      URL("a", <<Dir("v"), File("seg", ".ts")>>, "q"),
      URL("a", <<Seg(<<"seg", "_", "h1">>, ".ts")>>, ""),
      URL("a", <<>>, "") }

InitFS ==
    /\ flatten \in BOOLEAN
    /\ urlToPath = <<>>
    /\ pathsInUse = {}
    /\ hash8 \in [FsURLs -> HashVals]
    /\ retLog = <<>>
    /\ concurrency = 0
    /\ rewriteURLs = FALSE
    /\ include = {}
    /\ exclude = {}
    /\ web = <<>>
    /\ visited = {}
    /\ gs = <<>>
    /\ pools = <<>>
    /\ fetchCount = <<>>
    /\ failed = {}
    /\ written = {}
    /\ errLog = <<>>
    /\ disk = <<>>
    /\ writtenAt = <<>>
    /\ result = <<>>
    /\ pathSep = "/"
    /\ relPending = <<>>
    /\ relLog = <<>>
    /\ base = <<>>
    /\ doc = <<>>
    /\ parsed = NoDocument
    /\ outLines = <<>>
    /\ resLog = {}
    /\ locks = NoLocks
    /\ filterLog = <<>>

\* The calls made for one URL.
MaxCalls == 2

Calls(u) == IF u \in DOMAIN retLog THEN Len(retLog[u]) ELSE 0

\* One call of GetLocalPath(u).
FsGetLocalPath(u) ==
    /\ Calls(u) < MaxCalls
    /\ LET r == GetLocalPath(urlToPath, pathsInUse, hash8, flatten, u) IN
       /\ urlToPath' = r.urlToPath
       /\ pathsInUse' = r.pathsInUse
       /\ retLog' = Logged(retLog, u, r.path)
    /\ UNCHANGED <<flatten, hash8, cfgVars, filterVars, lockVars, relVars, txtVars, crawlVars>>

NextFS == \E u \in FsURLs : FsGetLocalPath(u)

SpecFS == InitFS /\ [][NextFS]_vars

----------------------------------------------------------------------------
(* The path mapper on URLs that name no file: paths that end at a slash,   *)
(* the path "/" and the empty path.                                        *)

\* https://a/dir/, https://a/dir, https://a/v/dir/, https://a/ and https://a
DirURLs ==
    { URL("a", <<Dir("dir"), Empty>>, ""),
      URL("a", <<Dir("dir")>>, ""),
      URL("a", <<Dir("v"), Dir("dir"), Empty>>, ""),
      URL("a", <<Empty>>, ""),
      URL("a", <<>>, "") }

InitDir ==
    /\ flatten \in BOOLEAN
    /\ urlToPath = <<>>
    /\ pathsInUse = {}
    /\ hash8 \in [DirURLs -> HashVals]
    /\ retLog = <<>>
    /\ concurrency = 0
    /\ rewriteURLs = FALSE
    /\ include = {}
    /\ exclude = {}
    /\ web = <<>>
    /\ visited = {}
    /\ gs = <<>>
    /\ pools = <<>>
    /\ fetchCount = <<>>
    /\ failed = {}
    /\ written = {}
    /\ errLog = <<>>
    /\ disk = <<>>
    /\ writtenAt = <<>>
    /\ result = <<>>
    /\ pathSep = "/"
    /\ relPending = <<>>
    /\ relLog = <<>>
    /\ base = <<>>
    /\ doc = <<>>
    /\ parsed = NoDocument
    /\ outLines = <<>>
    /\ resLog = {}
    /\ locks = NoLocks
    /\ filterLog = <<>>

NextDir == \E u \in DirURLs : FsGetLocalPath(u)

SpecDir == InitDir /\ [][NextDir]_vars

----------------------------------------------------------------------------
(* GetRelativePath among other calls of the path mapper.                   *)

\* A playlist, a playlist one directory below it, a segment beside the
\* first, and a segment of the same name on another host.
rPlaylist == URL("a", <<Dir("path"), File("playlist", ".m3u8")>>, "")

rSub == URL("a", <<Dir("path"), Dir("sub"), File("playlist", ".m3u8")>>, "")

rSegment == URL("a", <<Dir("path"), File("segment", ".ts")>>, "")

rOther == URL("b", <<Dir("other"), File("segment", ".ts")>>, "")

RelURLs == {rPlaylist, rSub, rSegment, rOther}

InitRel ==
    /\ flatten \in BOOLEAN
    /\ urlToPath = <<>>
    /\ pathsInUse = {}
    /\ hash8 = [u \in RelURLs |-> IF u.host = "a" THEN "h1" ELSE "h2"]
    /\ retLog = <<>>
    /\ concurrency = 0
    /\ rewriteURLs = FALSE
    /\ include = {}
    /\ exclude = {}
    /\ web = <<>>
    /\ visited = {}
    /\ gs = <<>>
    /\ pools = <<>>
    /\ fetchCount = <<>>
    /\ failed = {}
    /\ written = {}
    /\ errLog = <<>>
    /\ disk = <<>>
    /\ writtenAt = <<>>
    /\ result = <<>>
    /\ pathSep \in {"/", "\\"}
    /\ relPending = <<>>
    /\ relLog = <<>>
    /\ base = <<>>
    /\ doc = <<>>
    /\ parsed = NoDocument
    /\ outLines = <<>>
    /\ resLog = {}
    /\ locks = NoLocks
    /\ filterLog = <<>>

\* The GetRelativePath calls of one run.
MaxRelCalls == 1

\* GetRelativePath(from, to): its first call, GetLocalPath(from)
RelFrom(from, to) ==
    /\ relPending = <<>>
    /\ Len(relLog) < MaxRelCalls
    /\ LET r == GetLocalPath(urlToPath, pathsInUse, hash8, flatten, from) IN
       /\ urlToPath' = r.urlToPath
       /\ pathsInUse' = r.pathsInUse
       /\ retLog' = Logged(retLog, from, r.path)
       /\ relPending' = << [from |-> from, to |-> to, fromPath |-> r.path] >>
    /\ UNCHANGED <<flatten, hash8, cfgVars, filterVars, lockVars, crawlVars, txtVars, pathSep, relLog>>

\* GetRelativePath: its second call, GetLocalPath(to), and its return
RelTo ==
    /\ relPending # <<>>
    /\ LET c == relPending[1]
           r == GetLocalPath(urlToPath, pathsInUse, hash8, flatten, c.to)
       IN  /\ urlToPath' = r.urlToPath
           /\ pathsInUse' = r.pathsInUse
           /\ retLog' = Logged(retLog, c.to, r.path)
           /\ relLog' = Append(relLog,
                  [from |-> c.from, to |-> c.to,
                   ret |-> relativePath(c.fromPath, r.path, pathSep)])
    /\ relPending' = <<>>
    /\ UNCHANGED <<flatten, hash8, cfgVars, filterVars, lockVars, crawlVars, txtVars, pathSep>>

\* Another caller's GetLocalPath(u) that assigns (one that reads the cache
\* changes nothing a GetRelativePath call can see).
RelOther(u) == u \notin DOMAIN urlToPath /\ FsGetLocalPath(u)

NextRel ==
    \/ \E u \in RelURLs : RelOther(u)
    \/ \E from, to \in RelURLs : RelFrom(from, to)
    \/ RelTo

SpecRel == InitRel /\ [][NextRel]_vars

----------------------------------------------------------------------------
(* internal/downloader: the crawl.  Goroutine <<>> runs Download; the pool *)
(* that goroutine g starts for the playlist it took at queue position n is *)
(* Append(g, n), and that pool's worker j is Append(Append(g, n), j).      *)

NoURL == URL("", <<>>, "")

Main == <<>>

idle == [pc |-> "idle", url |-> NoURL, isM3U8 |-> FALSE, pos |-> 0, out |-> <<>>]

\* The lines the Fetcher serves for a URL (none for a plain resource).
Content(u) == IF u \in DOMAIN web THEN web[u] ELSE <<>>

\* Fetched content as it is when no line was rewritten.
Orig(lines) == [i \in 1..Len(lines) |-> [line |-> lines[i], rel |-> <<>>]]

Without(f, x) == [y \in DOMAIN f \ {x} |-> f[y]]

With(f, x, v) == [y \in DOMAIN f \cup {x} |-> IF y = x THEN v ELSE f[y]]

\* The return of goroutine id's task with err (<<>> is nil): Download
\* returns; a worker of downloadURLs loops on nil and, on an error, sends it
\* to errChan and returns (wg.Done).  The channel is closed and holds every
\* URL before the first worker runs, so a worker that loops while it is
\* empty returns: that return is taken in the same step.  A send to a full
\* errChan blocks, and nothing receives from errChan before wg.Wait returned.
Ret(g, p, id, err) ==
    IF id = Main
    THEN /\ gs' = [g EXCEPT ![id].pc = "done"]
         /\ pools' = p
         /\ result' = << [ok |-> err = <<>>, err |-> err] >>
    ELSE /\ result' = result
         /\ IF err = <<>> /\ p[DirOf(id)].queue # <<>>
            THEN /\ gs' = [g EXCEPT ![id] = idle]
                 /\ pools' = p
            ELSE IF err # <<>> /\ Len(p[DirOf(id)].errs) >= p[DirOf(id)].cap
            THEN /\ gs' = [g EXCEPT ![id].pc = "blocked"]
                 /\ pools' = p
            ELSE /\ gs' = Without(g, id)
                 /\ pools' = [p EXCEPT ![DirOf(id)].errs = @ \o err,
                                       ![DirOf(id)].live = @ - 1]

\* The task a goroutine is running: the goroutine and the position of the
\* task's URL in the URLs sent to the goroutine's pool (0 for Download's
\* call of downloadM3U8).  It is also the name of the pool the task starts
\* when it is a playlist.
TaskOf(g, id) == Append(id, g[id].pos)

\* for urlStr := range urlChan: a worker receives the next URL, or returns
\* when the channel is closed and drained.
Take(id) ==
    /\ gs[id].pc = "idle"
    /\ LET pid == DirOf(id)
           q   == pools[pid].queue
       IN  IF q # <<>>
           THEN /\ gs' = [gs EXCEPT ![id] =
                     [pc |-> "check", url |-> Head(q),
                      isM3U8 |-> IsM3U8(Content(gs[DirOf(pid)].url), Head(q)),
                      pos |-> pools[pid].taken + 1, out |-> <<>>]]
                /\ pools' = [pools EXCEPT ![pid].queue = Tail(q),
                                          ![pid].taken = @ + 1]
           ELSE /\ gs' = Without(gs, id)
                /\ pools' = [pools EXCEPT ![pid].live = @ - 1]
    /\ UNCHANGED <<fsVars, cfgVars, filterVars, lockVars, relVars, txtVars, visited, fetchCount, failed, written, errLog, disk, writtenAt, result>>

\* d.isVisited(url) of downloadM3U8 and downloadURL
Check(id) ==
    /\ gs[id].pc = "check"
    /\ IF gs[id].url \in visited
       THEN Ret(gs, pools, id, <<>>)
       ELSE /\ gs' = [gs EXCEPT ![id].pc = "mark"]
            /\ UNCHANGED <<pools, result>>
    /\ UNCHANGED <<fsVars, cfgVars, filterVars, lockVars, relVars, txtVars, visited, fetchCount, failed, written, errLog, disk, writtenAt>>

\* d.markVisited(url), then the call of d.fetcher.Fetch
Mark(id) ==
    /\ gs[id].pc = "mark"
    /\ visited' = visited \cup {gs[id].url}
    /\ fetchCount' = With(fetchCount, gs[id].url,
                          IF gs[id].url \in DOMAIN fetchCount
                          THEN fetchCount[gs[id].url] + 1 ELSE 1)
    /\ gs' = [gs EXCEPT ![id].pc = "fetching"]
    /\ UNCHANGED <<fsVars, cfgVars, filterVars, lockVars, relVars, txtVars, pools, failed, written, errLog, disk, writtenAt, result>>

\* The mutant of afterChildren that does not read d.rewriteURLs.
afterChildrenAlways(lines) == IF lines # <<>> THEN "rewrite" ELSE "write"

\* The pc after downloadURLs returned nil.
afterChildren(lines) == IF rewriteURLs /\ lines # <<>> THEN "rewrite" ELSE "write"

\* Fetch returns an error: the task returns it.
FetchFail(id) ==
    /\ gs[id].pc = "fetching"
    /\ failed' = failed \cup {gs[id].url}
    /\ errLog' = Append(errLog, [url |-> gs[id].url, kind |-> "fetch",
                                 task |-> TaskOf(gs, id)])
    /\ Ret(gs, pools, id, << [url |-> gs[id].url, kind |-> "fetch"] >>)
    /\ UNCHANGED <<fsVars, cfgVars, filterVars, lockVars, relVars, txtVars, visited, fetchCount, written, disk, writtenAt>>

\* The mutant of errChanCap that makes errChan unbuffered.
errChanUnbuffered(filteredURLs) == 0

\* errChan := make(chan error, len(filteredURLs))
errChanCap(filteredURLs) == Len(filteredURLs)

\* Fetch returns the content.  downloadURL goes on to WriteFile;
\* downloadM3U8 parses and calls downloadURLs: filter, start the workers,
\* send every URL, close the channel, wg.Wait.
FetchOk(id) ==
    /\ gs[id].pc = "fetching"
    /\ IF ~gs[id].isM3U8
       THEN /\ gs' = [gs EXCEPT ![id].pc = "write"]
            /\ pools' = pools
       ELSE LET lines == Content(gs[id].url)
                filteredURLs == filterURLs(include, exclude, URLsOf(lines))
                pid == Append(id, gs[id].pos)
                ws  == {Append(pid, j) : j \in 1..concurrency}
            IN  IF filteredURLs = <<>>
                THEN /\ gs' = [gs EXCEPT ![id].pc = afterChildren(lines)]
                     /\ pools' = pools
                ELSE /\ gs' = [x \in DOMAIN gs \cup ws |->
                                 IF x \in ws THEN idle
                                 ELSE IF x = id THEN [gs[id] EXCEPT !.pc = "wait"]
                                 ELSE gs[x]]
                     /\ pools' = With(pools, pid,
                                      [queue |-> filteredURLs, taken |-> 0,
                                       errs |-> <<>>,
                                       cap  |-> errChanCap(filteredURLs),
                                       live |-> concurrency])
    /\ UNCHANGED <<fsVars, cfgVars, filterVars, lockVars, relVars, txtVars, visited, fetchCount, failed, written, errLog, disk, writtenAt, result>>

\* The mutant of Wait that does not read errChan.
WaitIgnoreErrs(id) ==
    /\ gs[id].pc = "wait"
    /\ LET pid == Append(id, gs[id].pos) IN
       /\ pools[pid].live = 0
       /\ gs' = [gs EXCEPT ![id].pc = afterChildren(Content(gs[id].url))]
       /\ pools' = Without(pools, pid)
    /\ UNCHANGED <<fsVars, cfgVars, filterVars, lockVars, relVars, txtVars, visited, fetchCount, failed, written, errLog, disk, writtenAt, result>>

\* wg.Wait returns, errChan is closed and read: the first error in it is
\* returned, else downloadM3U8 goes on.
Wait(id) ==
    /\ gs[id].pc = "wait"
    /\ LET pid == Append(id, gs[id].pos) IN
       /\ pools[pid].live = 0
       /\ IF pools[pid].errs # <<>>
          THEN /\ failed' = failed \cup {gs[id].url}
               /\ Ret(gs, Without(pools, pid), id, <<Head(pools[pid].errs)>>)
          ELSE /\ failed' = failed
               /\ gs' = [gs EXCEPT ![id].pc = afterChildren(Content(gs[id].url))]
               /\ pools' = Without(pools, pid)
               /\ result' = result
    /\ UNCHANGED <<fsVars, cfgVars, filterVars, lockVars, relVars, txtVars, visited, fetchCount, written, errLog, disk, writtenAt>>

\* RewriteM3U8URLs, one line: rewriteSegmentLine or rewriteTagLine calls
\* fs.GetRelativePath(sourceURL, absoluteURL), which calls GetLocalPath for
\* both; when Rel fails the line keeps its text.  GetLocalPath(sourceURL)
\* is a step of its own when it assigns; when it reads the cache it is
\* taken together with GetLocalPath(absoluteURL).
Rewrite(id) ==
    /\ gs[id].pc = "rewrite"
    /\ LET from  == gs[id].url
           lines == Content(from)
           l     == lines[Len(gs[id].out) + 1]
       IN  IF from \notin DOMAIN urlToPath
           THEN LET r == GetLocalPath(urlToPath, pathsInUse, hash8, flatten, from) IN
                /\ urlToPath' = r.urlToPath
                /\ pathsInUse' = r.pathsInUse
                /\ retLog' = Logged(retLog, from, r.path)
                /\ gs' = gs
           ELSE LET r == GetLocalPath(urlToPath, pathsInUse, hash8, flatten, l.ref)
                    o == Append(gs[id].out,
                           [line |-> l, rel |-> Rel(DirOf(urlToPath[from]), r.path)])
                IN  /\ urlToPath' = r.urlToPath
                    /\ pathsInUse' = r.pathsInUse
                    /\ retLog' = Logged(Logged(retLog, from, urlToPath[from]), l.ref, r.path)
                    /\ gs' = [gs EXCEPT ![id].out = o,
                                        ![id].pc = IF Len(o) = Len(lines)
                                                   THEN "write" ELSE "rewrite"]
    /\ UNCHANGED <<flatten, hash8, cfgVars, filterVars, lockVars, relVars, txtVars, visited, pools, fetchCount, failed, written, errLog, disk, writtenAt, result>>

\* fs.WriteFile: its call of GetLocalPath
WritePath(id) ==
    /\ gs[id].pc = "write"
    /\ LET r == GetLocalPath(urlToPath, pathsInUse, hash8, flatten, gs[id].url) IN
       /\ urlToPath' = r.urlToPath
       /\ pathsInUse' = r.pathsInUse
       /\ retLog' = Logged(retLog, gs[id].url, r.path)
    /\ gs' = [gs EXCEPT ![id].pc = "io"]
    /\ UNCHANGED <<flatten, hash8, cfgVars, filterVars, lockVars, relVars, txtVars, visited, pools, fetchCount, failed, written, errLog, disk, writtenAt, result>>

\* fs.WriteFile: tmpPath := localPath + ".tmp"
tmpPath(localPath) ==
    Append(DirOf(localPath), Seg(SegText(localPath[Len(localPath)]), ".tmp"))

\* What downloadM3U8 or downloadURL hands to WriteFile.
dataOf(g) ==
    IF g.isM3U8 /\ rewriteURLs /\ Content(g.url) # <<>>
    THEN g.out ELSE Orig(Content(g.url))

\* fs.WriteFile: MkdirAll, os.WriteFile and os.Rename succeed
WriteOk(id) ==
    /\ gs[id].pc = "io"
    /\ disk' = With(disk, urlToPath[gs[id].url],
                    [url |-> gs[id].url, data |-> dataOf(gs[id])])
    /\ written' = written \cup {gs[id].url}
    /\ writtenAt' = With(writtenAt, gs[id].url,
                         (IF gs[id].url \in DOMAIN writtenAt
                          THEN writtenAt[gs[id].url] ELSE {})
                         \cup {urlToPath[gs[id].url]})
    /\ Ret(gs, pools, id, <<>>)
    /\ UNCHANGED <<fsVars, cfgVars, filterVars, lockVars, relVars, txtVars, visited, fetchCount, failed, errLog>>

\* The mutant of WriteFail whose caller drops WriteFile's error.
WriteFailIgnored(id) ==
    /\ gs[id].pc = "io"
    /\ errLog' = Append(errLog, [url |-> gs[id].url, kind |-> "write",
                                 task |-> TaskOf(gs, id)])
    /\ Ret(gs, pools, id, <<>>)
    /\ UNCHANGED <<fsVars, cfgVars, filterVars, lockVars, relVars, txtVars, visited, fetchCount, failed, written, disk, writtenAt>>

\* fs.WriteFile: one of them fails
WriteFail(id) ==
    /\ gs[id].pc = "io"
    /\ failed' = failed \cup {gs[id].url}
    /\ errLog' = Append(errLog, [url |-> gs[id].url, kind |-> "write",
                                 task |-> TaskOf(gs, id)])
    /\ Ret(gs, pools, id, << [url |-> gs[id].url, kind |-> "write"] >>)
    /\ UNCHANGED <<fsVars, cfgVars, filterVars, lockVars, relVars, txtVars, visited, fetchCount, written, disk, writtenAt>>

Next ==
    \/ \E id \in DOMAIN gs : Take(id)
    \/ \E id \in DOMAIN gs : Check(id)
    \/ \E id \in DOMAIN gs : Mark(id)
    \/ \E id \in DOMAIN gs : FetchFail(id)
    \/ \E id \in DOMAIN gs : FetchOk(id)
    \/ \E id \in DOMAIN gs : Wait(id)
    \/ \E id \in DOMAIN gs : Rewrite(id)
    \/ \E id \in DOMAIN gs : WritePath(id)
    \/ \E id \in DOMAIN gs : WriteOk(id)
    \/ \E id \in DOMAIN gs : WriteFail(id)

----------------------------------------------------------------------------
(* The crawls checked *)

uRoot == URL("a", <<File("root", ".m3u8")>>, "")

uA == URL("a", <<Dir("v"), File("A", ".m3u8")>>, "")

uS1 == URL("a", <<Dir("v"), File("seg", ".ts")>>, "")

uS2 == URL("b", <<Dir("v"), File("seg", ".ts")>>, "")

uK == URL("a", <<Dir("v"), File("k", ".key")>>, "")

\* One segment listed twice.
WebDup == (uRoot :> <<Bare(uS1), Bare(uS1)>>)

\* A nested playlist with a key and a segment whose URL path is that of its
\* parent's segment, on another host.
WebNested == (uRoot :> <<Bare(uA), Bare(uS1)>>) @@ (uA :> <<Tag(uK), Bare(uS2)>>)

\* A nested playlist that refers back to its parent.
WebCycle == (uRoot :> <<Bare(uA)>>) @@ (uA :> <<Bare(uRoot), Bare(uS1)>>)

Webs == {WebDup, WebNested, WebCycle}

uB == URL("a", <<Dir("v"), File("B", ".m3u8")>>, "")

\* A playlist that the root lists as a nested playlist and that another
\* nested playlist, listed before it, names in the URI of a tag.
WebShadow ==
    (uRoot :> <<Bare(uB), Bare(uA)>>) @@ (uB :> <<Tag(uA)>>) @@ (uA :> <<Bare(uS1)>>)

Filters ==
    { [include |-> {}, exclude |-> {}],
      [include |-> {}, exclude |-> {".key"}],
      [include |-> {}, exclude |-> {".m3u8"}],
      [include |-> {".ts"}, exclude |-> {}] }

MaxConcurrency == 2

AllURLs == {uRoot, uA, uS1, uS2, uK}

Init ==
    /\ flatten \in BOOLEAN
    /\ urlToPath = <<>>
    /\ pathsInUse = {}
    /\ hash8 = [u \in AllURLs |-> IF u.host = "a" THEN "h1" ELSE "h2"]
    /\ retLog = <<>>
    /\ concurrency \in 0..MaxConcurrency
    /\ rewriteURLs \in BOOLEAN
    /\ \E f \in Filters : include = f.include /\ exclude = f.exclude
    /\ web \in Webs
    /\ visited = {}
    /\ gs = (Main :> [pc |-> "check", url |-> uRoot, isM3U8 |-> TRUE,
                      pos |-> 0, out |-> <<>>])
    /\ pools = <<>>
    /\ fetchCount = <<>>
    /\ failed = {}
    /\ written = {}
    /\ errLog = <<>>
    /\ disk = <<>>
    /\ writtenAt = <<>>
    /\ result = <<>>
    /\ pathSep = "/"
    /\ relPending = <<>>
    /\ relLog = <<>>
    /\ base = <<>>
    /\ doc = <<>>
    /\ parsed = NoDocument
    /\ outLines = <<>>
    /\ resLog = {}
    /\ locks = NoLocks
    /\ filterLog = <<>>

Spec == Init /\ [][Next]_vars

\* Download on the web whose nested playlist is also a tag's resource.
InitShadow ==
    /\ flatten \in BOOLEAN
    /\ urlToPath = <<>>
    /\ pathsInUse = {}
    /\ hash8 = [u \in AllURLs \cup {uB} |-> IF u.host = "a" THEN "h1" ELSE "h2"]
    /\ retLog = <<>>
    /\ concurrency \in 0..MaxConcurrency
    /\ rewriteURLs \in BOOLEAN
    /\ \E f \in Filters : include = f.include /\ exclude = f.exclude
    /\ web = WebShadow
    /\ visited = {}
    /\ gs = (Main :> [pc |-> "check", url |-> uRoot, isM3U8 |-> TRUE,
                      pos |-> 0, out |-> <<>>])
    /\ pools = <<>>
    /\ fetchCount = <<>>
    /\ failed = {}
    /\ written = {}
    /\ errLog = <<>>
    /\ disk = <<>>
    /\ writtenAt = <<>>
    /\ result = <<>>
    /\ pathSep = "/"
    /\ relPending = <<>>
    /\ relLog = <<>>
    /\ base = <<>>
    /\ doc = <<>>
    /\ parsed = NoDocument
    /\ outLines = <<>>
    /\ resLog = {}
    /\ locks = NoLocks
    /\ filterLog = <<>>

SpecShadow == InitShadow /\ [][Next]_vars

\* The local paths have no part in the scheduling; the crawl of every web
\* in full, in hierarchical mode, the playlists rewritten.
InitLive == Init /\ ~flatten /\ rewriteURLs /\ include = {} /\ exclude = {}

\* The crawl with goroutines that go on running: the scheduler runs a
\* goroutine that can take a step, and Fetch and WriteFile return.
SpecLive == InitLive /\ [][Next]_vars /\ WF_vars(Next)

----------------------------------------------------------------------------
(* downloadURL with its critical sections step by step: the crawl above    *)
(* takes isVisited, markVisited and GetLocalPath as one step each; here    *)
(* Lock, the map operation with the deferred Unlock, and every Fetcher and *)
(* file operation are steps of their own, for goroutines that each run     *)
(* one call of downloadURL.                                                *)

\* sync.Mutex: Lock returns when no goroutine holds the mutex.
Free(l, m) == l[m] = {}

Locked(l, m, id) == [l EXCEPT ![m] = {id}]

Unlocked(l, m, id) == [l EXCEPT ![m] = @ \ {id}]

\* A goroutine's move to the next statement.
At(g, id, pc) == [g EXCEPT ![id].pc = pc]

\* downloadURL or WriteFile returns err for goroutine id.
Fails(id, kind) ==
    /\ gs' = At(gs, id, "done")
    /\ failed' = failed \cup {gs[id].url}
    /\ errLog' = Append(errLog, [url |-> gs[id].url, kind |-> kind,
                                 task |-> TaskOf(gs, id)])

\* d.isVisited: d.visitedLock.Lock()
isVisitedLock(id) ==
    /\ gs[id].pc = "start"
    /\ Free(locks, "visitedLock")
    /\ locks' = Locked(locks, "visitedLock", id)
    /\ gs' = At(gs, id, "isVisited")
    /\ UNCHANGED <<fsVars, cfgVars, filterVars, relVars, txtVars, visited, pools, fetchCount, failed, written, errLog, disk, writtenAt, result>>

\* d.isVisited: return d.visited[urlStr], and the deferred Unlock
isVisitedReturn(id) ==
    /\ gs[id].pc = "isVisited"
    /\ locks' = Unlocked(locks, "visitedLock", id)
    /\ gs' = At(gs, id, IF gs[id].url \in visited THEN "done" ELSE "unvisited")
    /\ UNCHANGED <<fsVars, cfgVars, filterVars, relVars, txtVars, visited, pools, fetchCount, failed, written, errLog, disk, writtenAt, result>>

\* d.markVisited: d.visitedLock.Lock()
markVisitedLock(id) ==
    /\ gs[id].pc = "unvisited"
    /\ Free(locks, "visitedLock")
    /\ locks' = Locked(locks, "visitedLock", id)
    /\ gs' = At(gs, id, "markVisited")
    /\ UNCHANGED <<fsVars, cfgVars, filterVars, relVars, txtVars, visited, pools, fetchCount, failed, written, errLog, disk, writtenAt, result>>

\* d.markVisited: d.visited[urlStr] = true, and the deferred Unlock; then
\* the call of d.fetcher.Fetch
markVisitedReturn(id) ==
    /\ gs[id].pc = "markVisited"
    /\ visited' = visited \cup {gs[id].url}
    /\ locks' = Unlocked(locks, "visitedLock", id)
    /\ fetchCount' = With(fetchCount, gs[id].url,
                          IF gs[id].url \in DOMAIN fetchCount
                          THEN fetchCount[gs[id].url] + 1 ELSE 1)
    /\ gs' = At(gs, id, "Fetch")
    /\ UNCHANGED <<fsVars, cfgVars, filterVars, relVars, txtVars, pools, failed, written, errLog, disk, writtenAt, result>>

\* d.fetcher.Fetch returns the content or an error
Fetch(id) ==
    /\ gs[id].pc = "Fetch"
    /\ \/ /\ gs' = At(gs, id, "WriteFile")
          /\ UNCHANGED <<failed, errLog>>
       \/ Fails(id, "fetch")
    /\ UNCHANGED <<fsVars, cfgVars, filterVars, lockVars, relVars, txtVars, visited, pools, fetchCount, written, disk, writtenAt, result>>

\* fs.WriteFile calls fs.GetLocalPath: fs.mu.Lock()
GetLocalPathLock(id) ==
    /\ gs[id].pc = "WriteFile"
    /\ Free(locks, "mu")
    /\ locks' = Locked(locks, "mu", id)
    /\ gs' = At(gs, id, "GetLocalPath")
    /\ UNCHANGED <<fsVars, cfgVars, filterVars, relVars, txtVars, visited, pools, fetchCount, failed, written, errLog, disk, writtenAt, result>>

\* The mutant of GetLocalPathReturn that keeps fs.mu for the rest of
\* WriteFile.
GetLocalPathKeepsLock(id) ==
    /\ gs[id].pc = "GetLocalPath"
    /\ LET r == GetLocalPath(urlToPath, pathsInUse, hash8, flatten, gs[id].url) IN
       /\ urlToPath' = r.urlToPath
       /\ pathsInUse' = r.pathsInUse
       /\ retLog' = Logged(retLog, gs[id].url, r.path)
    /\ gs' = At(gs, id, "MkdirAll")
    /\ UNCHANGED <<flatten, hash8, cfgVars, filterVars, lockVars, relVars, txtVars, visited, pools, fetchCount, failed, written, errLog, disk, writtenAt, result>>

\* fs.GetLocalPath: the cache, the computed path and the two maps, and the
\* deferred Unlock
GetLocalPathReturn(id) ==
    /\ gs[id].pc = "GetLocalPath"
    /\ LET r == GetLocalPath(urlToPath, pathsInUse, hash8, flatten, gs[id].url) IN
       /\ urlToPath' = r.urlToPath
       /\ pathsInUse' = r.pathsInUse
       /\ retLog' = Logged(retLog, gs[id].url, r.path)
    /\ locks' = Unlocked(locks, "mu", id)
    /\ gs' = At(gs, id, "MkdirAll")
    /\ UNCHANGED <<flatten, hash8, cfgVars, filterVars, relVars, txtVars, visited, pools, fetchCount, failed, written, errLog, disk, writtenAt, result>>

\* fs.WriteFile: os.MkdirAll(dir, 0755)
MkdirAll(id) ==
    /\ gs[id].pc = "MkdirAll"
    /\ \/ /\ gs' = At(gs, id, "os.WriteFile")
          /\ UNCHANGED <<failed, errLog>>
       \/ Fails(id, "write")
    /\ UNCHANGED <<fsVars, cfgVars, filterVars, lockVars, relVars, txtVars, visited, pools, fetchCount, written, disk, writtenAt, result>>

\* fs.WriteFile: os.WriteFile(tmpPath, content, 0644)
WriteTmp(id) ==
    /\ gs[id].pc = "os.WriteFile"
    /\ \/ /\ gs' = At(gs, id, "Rename")
          /\ UNCHANGED <<failed, errLog>>
       \/ Fails(id, "write")
    /\ UNCHANGED <<fsVars, cfgVars, filterVars, lockVars, relVars, txtVars, visited, pools, fetchCount, written, disk, writtenAt, result>>

\* fs.WriteFile: os.Rename(tmpPath, localPath), and downloadURL's return
Rename(id) ==
    /\ gs[id].pc = "Rename"
    /\ \/ /\ gs' = At(gs, id, "done")
          /\ disk' = With(disk, urlToPath[gs[id].url],
                          [url |-> gs[id].url, data |-> dataOf(gs[id])])
          /\ written' = written \cup {gs[id].url}
          /\ writtenAt' = With(writtenAt, gs[id].url,
                               (IF gs[id].url \in DOMAIN writtenAt
                                THEN writtenAt[gs[id].url] ELSE {})
                               \cup {urlToPath[gs[id].url]})
          /\ UNCHANGED <<failed, errLog>>
       \/ /\ Fails(id, "write")
          /\ UNCHANGED <<written, disk, writtenAt>>
    /\ UNCHANGED <<fsVars, cfgVars, filterVars, lockVars, relVars, txtVars, visited, pools, fetchCount, result>>

NextLock ==
    \/ \E id \in DOMAIN gs : isVisitedLock(id)
    \/ \E id \in DOMAIN gs : isVisitedReturn(id)
    \/ \E id \in DOMAIN gs : markVisitedLock(id)
    \/ \E id \in DOMAIN gs : markVisitedReturn(id)
    \/ \E id \in DOMAIN gs : Fetch(id)
    \/ \E id \in DOMAIN gs : GetLocalPathLock(id)
    \/ \E id \in DOMAIN gs : GetLocalPathReturn(id)
    \/ \E id \in DOMAIN gs : MkdirAll(id)
    \/ \E id \in DOMAIN gs : WriteTmp(id)
    \/ \E id \in DOMAIN gs : Rename(id)

\* The workers of one pool, each at the start of downloadURL for a segment:
\* the same segment or segments of the same name on two hosts.
InitLock ==
    /\ flatten \in BOOLEAN
    /\ urlToPath = <<>>
    /\ pathsInUse = {}
    /\ hash8 = [u \in AllURLs |-> IF u.host = "a" THEN "h1" ELSE "h2"]
    /\ retLog = <<>>
    /\ concurrency = MaxConcurrency
    /\ rewriteURLs = FALSE
    /\ include = {}
    /\ exclude = {}
    /\ web = WebDup
    /\ visited = {}
    /\ \E f \in [1..MaxConcurrency -> {uS1, uS2}] :
           gs = [id \in {<<0, j>> : j \in 1..MaxConcurrency} |->
                   [pc |-> "start", url |-> f[id[2]], isM3U8 |-> FALSE,
                    pos |-> id[2], out |-> <<>>]]
    /\ pools = <<>>
    /\ fetchCount = <<>>
    /\ failed = {}
    /\ written = {}
    /\ errLog = <<>>
    /\ disk = <<>>
    /\ writtenAt = <<>>
    /\ result = <<>>
    /\ pathSep = "/"
    /\ relPending = <<>>
    /\ relLog = <<>>
    /\ base = <<>>
    /\ doc = <<>>
    /\ parsed = NoDocument
    /\ outLines = <<>>
    /\ resLog = {}
    /\ locks = NoLocks
    /\ filterLog = <<>>

SpecLock == InitLock /\ [][NextLock]_vars

----------------------------------------------------------------------------
(* Properties *)

Returned == result # <<>>

Succeeded == Returned /\ result[1].ok

\* The playlists that were fetched and parsed.
FetchedPlaylists == DOMAIN web \cap DOMAIN fetchCount

\* The references of a playlist.
Refs(p) == {web[p][i].ref : i \in 1..Len(web[p])}

\* The include/exclude policy, for extension lists with their leading dot:
\* not excluded, and included when there is an include list.
PassesFilter(u) ==
    /\ ExtOf(u) \notin exclude
    /\ (include = {} \/ ExtOf(u) \in include)

\* The references of a playlist that the filter keeps.
KeptRefs(p) == {u \in Refs(p) : PassesFilter(u)}

\* The references of a playlist that the parser classifies as nested.
NestedRefs(p) == {u \in Refs(p) : IsM3U8(web[p], u)}

Fetching == {id \in DOMAIN gs : gs[id].pc = "fetching"}

\* C1: during one crawl the Fetcher is invoked at most once for any URL.
C1_FetchedAtMostOnce ==
    \A u \in DOMAIN fetchCount : fetchCount[u] <= 1

\* C2: with a positive concurrency, a playlist is written only when every
\* filter-passing URL it references is already Written or Failed.
C2_WrittenAfterRefs ==
    [][concurrency > 0 =>
          \A p \in (written' \ written) \cap DOMAIN web :
              \A u \in KeptRefs(p) \ {p} : u \in written \cup failed]_vars

\* C3: no two distinct URLs are assigned the same local path, in either mode.
C3_NoSharedPath ==
    \A u, v \in DOMAIN urlToPath : u # v => urlToPath[u] # urlToPath[v]

\* C4: every call of GetLocalPath for a URL returns the path the first call
\* for that URL returned, and that path is the one the map holds.
C4_PathStable ==
    \A u \in DOMAIN retLog :
        \A i \in 1..Len(retLog[u]) :
            retLog[u][i] = retLog[u][1] /\ retLog[u][i] = urlToPath[u]

\* C4 witness: a URL was asked for again after other URLs were assigned.
C4_Witness ==
    \E u \in DOMAIN retLog :
        /\ Len(retLog[u]) = MaxCalls
        /\ Cardinality(DOMAIN urlToPath) >= 3
        /\ \E v \in DOMAIN retLog : v # u /\ Len(urlToPath[v]) = Len(urlToPath[u])
                                        /\ urlToPath[v] # urlToPath[u] /\ flatten

\* C5: with a positive concurrency, when Download returns success the root
\* and every fetched playlist are written, and every filter-passing URL of
\* every fetched playlist has been fetched and written.
C5_SuccessIsComplete ==
    (Succeeded /\ concurrency > 0) =>
        /\ uRoot \in written
        /\ \A p \in FetchedPlaylists :
              /\ p \in written
              /\ \A u \in KeptRefs(p) : u \in DOMAIN fetchCount /\ u \in written

\* C5 witness: a successful crawl of the nested web, nothing filtered.
C5_Witness ==
    /\ Succeeded /\ concurrency = MaxConcurrency
    /\ web = WebNested /\ include = {} /\ exclude = {}
    /\ written = AllURLs

\* C6: when a Fetch returned an error, Download does not return success.
C6_FetchErrorReported ==
    (Returned /\ \E i \in 1..Len(errLog) : errLog[i].kind = "fetch") => ~result[1].ok

\* C6 witness: Download returned after the fetch of a segment of the
\* nested playlist failed.
C6_Witness ==
    /\ Returned
    /\ web = WebNested
    /\ \E i \in 1..Len(errLog) : errLog[i].url = uK /\ errLog[i].kind = "fetch"

\* C7: after a task failed no Fetch is started.
C7_NoFetchAfterFailure ==
    [][errLog # <<>> => fetchCount' = fetchCount]_vars

\* C8: with a positive concurrency, the Fetcher invocations in progress
\* never exceed it.
C8_FetchesWithinConcurrency ==
    concurrency > 0 => Cardinality(Fetching) <= concurrency

\* C9: with a positive concurrency, a URL the filter dropped never gets a
\* path assignment, and every written line that refers to it has its
\* original text.
C9_NoPathForDropped ==
    concurrency > 0 =>
        /\ \A p \in FetchedPlaylists :
              \A u \in Refs(p) \ (KeptRefs(p) \cup {uRoot}) : u \notin DOMAIN urlToPath
        /\ \A f \in DOMAIN disk : \A i \in 1..Len(disk[f].data) :
              ~PassesFilter(disk[f].data[i].line.ref) => disk[f].data[i].rel = <<>>

----------------------------------------------------------------------------
(* Playlist text.  A text is the sequence of its tokens; a token is a      *)
(* piece of text no pattern the code searches for begins or ends inside.   *)

\* strings.Index(s, tok) for a one-token pattern, from 1; 0 when absent
Index(s, tok) ==
    IF \E i \in 1..Len(s) : s[i] = tok
    THEN CHOOSE i \in 1..Len(s) : s[i] = tok /\ \A j \in 1..(i - 1) : s[j] # tok
    ELSE 0

\* strings.LastIndex
LastIndex(s, tok) ==
    IF \E i \in 1..Len(s) : s[i] = tok
    THEN CHOOSE i \in 1..Len(s) : s[i] = tok /\ \A j \in (i + 1)..Len(s) : s[j] # tok
    ELSE 0

HasPrefix(s, tok) == s # <<>> /\ s[1] = tok

HasSuffix(s, tok) == s # <<>> /\ s[Len(s)] = tok

Contains(s, tok) == \E i \in 1..Len(s) : s[i] = tok

\* strings.TrimSpace
RECURSIVE TrimSpace(_)
TrimSpace(s) ==
    IF HasPrefix(s, " ") THEN TrimSpace(Tail(s))
    ELSE IF HasSuffix(s, " ") THEN TrimSpace(SubSeq(s, 1, Len(s) - 1))
    ELSE s

\* strings.Join of token sequences
RECURSIVE JoinToks(_, _)
JoinToks(es, sep) ==
    IF es = <<>> THEN <<>>
    ELSE IF Len(es) = 1 THEN es[1]
    ELSE es[1] \o <<sep>> \o JoinToks(Tail(es), sep)

\* The string of a text.
RECURSIVE Cat(_)
Cat(s) == IF s = <<>> THEN "" ELSE s[1] \o Cat(Tail(s))

----------------------------------------------------------------------------
(* net/url and path, as resolveURL and GetLocalPath use them *)

\* The percent-encoding url.URL.String gives a path token, and its inverse
\* in url.Parse.  "%zz" is an invalid escape.
escapeTok(tok) ==
    CASE tok = " "   -> "%20"
      [] tok = "%zz" -> "%25zz"
      [] tok = "?"   -> "%3F"
      [] tok = "#"   -> "%23"
      [] OTHER       -> tok

unescapeTok(tok) ==
    CASE tok = "%20"   -> " "
      [] tok = "%25zz" -> "%zz"
      [] tok = "%3F"   -> "?"
      [] tok = "%23"   -> "#"
      [] OTHER         -> tok

\* What precedes position i of a text and what follows it, the whole text
\* and nothing when i is 0: the two halves of strings.Cut.
Before(s, i) == IF i = 0 THEN s ELSE SubSeq(s, 1, i - 1)

After(s, i) == IF i = 0 THEN <<>> ELSE SubSeq(s, i + 1, Len(s))

\* url.Parse(text): the fragment is cut at "#", then the scheme is taken,
\* the query cut at "?" and the authority read after "//"; the path is
\* unescaped, and an invalid escape in it is the parse error.
urlParse(t) ==
    LET withPath(frag, scheme, query, host, p) ==
            [ok |-> ~Contains(p, "%zz"), scheme |-> scheme, host |-> host,
             path |-> [i \in 1..Len(p) |-> unescapeTok(p[i])],
             query |-> query, frag |-> frag]
        afterQuery(frag, scheme, query, r2) ==
            IF HasPrefix(r2, "//")
            THEN withPath(frag, scheme, query,
                          IF Len(r2) >= 2 THEN r2[2] ELSE "", SubSeq(r2, 3, Len(r2)))
            ELSE withPath(frag, scheme, query, "", r2)
        afterScheme(frag, scheme, r1, q) ==
            afterQuery(frag, scheme, IF q = 0 THEN <<>> ELSE SubSeq(r1, q, Len(r1)),
                       Before(r1, q))
        afterFragment(frag, r0) ==
            IF HasPrefix(r0, "https:")
            THEN afterScheme(frag, "https:", Tail(r0), Index(Tail(r0), "?"))
            ELSE afterScheme(frag, "", r0, Index(r0, "?"))
        cutAt(f) == afterFragment(After(t, f), Before(t, f))
    IN  cutAt(Index(t, "#"))

\* (*URL).String
String(u) ==
    <<u.scheme, "//", u.host>>
    \o [i \in 1..Len(u.path) |-> escapeTok(u.path[i])]
    \o u.query
    \o (IF u.frag = <<>> THEN <<>> ELSE <<"#">> \o u.frag)

\* The dot-segment loop of url's resolvePath and of path.Clean on the
\* elements of a rooted path: "." is skipped, ".." removes the element
\* before it, if any.
RECURSIVE removeDots(_, _)
removeDots(es, acc) ==
    IF es = <<>> THEN acc
    ELSE LET e == Head(es) IN
         IF e = <<".">> THEN removeDots(Tail(es), acc)
         ELSE IF e = <<"..">>
              THEN removeDots(Tail(es), IF acc = <<>> THEN <<>>
                                        ELSE SubSeq(acc, 1, Len(acc) - 1))
         ELSE removeDots(Tail(es), Append(acc, e))

\* The elements of a path text, without the empty one before a leading "/".
elements(p) ==
    LET es == Split(p, "/") IN
    IF HasPrefix(p, "/") THEN Tail(es) ELSE es

\* net/url resolvePath(base, ref): ref replaces what follows base's last
\* "/", unless it is empty or begins with "/"; dot segments are removed and
\* a last "." or ".." leaves a trailing "/".
resolvePath(b, ref) ==
    LET full == IF ref = <<>> THEN b
                ELSE IF ref[1] # "/" THEN SubSeq(b, 1, LastIndex(b, "/")) \o ref
                ELSE ref
        es   == elements(full)
        last == es[Len(es)]
        kept == removeDots(es, <<>>)
    IN  IF full = <<>> THEN <<>>
        ELSE <<"/">> \o JoinToks(IF last = <<".">> \/ last = <<"..">>
                                  THEN Append(kept, <<>>) ELSE kept, "/")

\* (*URL).ResolveReference(ref) for a reference without a scheme
ResolveReference(u, ref) ==
    IF ref.host # ""
    THEN [ok |-> TRUE, scheme |-> u.scheme, host |-> ref.host,
          path |-> resolvePath(ref.path, <<>>), query |-> ref.query, frag |-> ref.frag]
    ELSE IF ref.path = <<>> /\ ref.query = <<>>
    THEN [ok |-> TRUE, scheme |-> u.scheme, host |-> u.host,
          path |-> resolvePath(u.path, <<>>), query |-> u.query,
          frag |-> IF ref.frag = <<>> THEN u.frag ELSE ref.frag]
    ELSE [ok |-> TRUE, scheme |-> u.scheme, host |-> u.host,
          path |-> resolvePath(u.path, ref.path), query |-> ref.query, frag |-> ref.frag]

\* resolveRelativePath: path.Dir of the base path, path.Join with the
\* reference text, and a URL of base's scheme and host with that path.
resolveRelativePath(b, relativePathText) ==
    LET joined(u, basePath) ==
            String([ok |-> TRUE, scheme |-> u.scheme, host |-> u.host,
                    path |-> <<"/">> \o JoinToks(
                                 removeDots(SelectSeq(elements(basePath \o <<"/">>
                                                               \o relativePathText),
                                                      LAMBDA e : e # <<>>), <<>>), "/"),
                    query |-> <<>>, frag |-> <<>>])
        from(u) == joined(u, SubSeq(u.path, 1, LastIndex(u.path, "/") - 1))
    IN  from(urlParse(b))

\* resolveURL(base, ref), base given as its text
resolveURL(b, ref) ==
    LET resolve(r) ==
            IF ~r.ok THEN resolveRelativePath(b, ref)
            ELSE IF r.scheme # "" THEN ref
            ELSE String(ResolveReference(urlParse(b), r))
    IN  resolve(urlParse(ref))

\* The URL of a URL text, as GetLocalPath reads it: the path url.Parse
\* gives, by segments; what follows the path only tells URLs apart.
URLOf(t) ==
    LET segments(es) == [i \in 1..Len(es) |-> SegOf(es[i])]
        of(u) ==
            URL(u.host,
                IF u.path = <<>> \/ u.path = <<"/">> THEN <<>>
                ELSE segments(elements(u.path)),
                (IF u.query = <<>> THEN "" ELSE Cat(Tail(u.query)))
                \o (IF u.frag = <<>> THEN "" ELSE "#" \o Cat(u.frag)))
    IN  of(urlParse(t))

----------------------------------------------------------------------------
(* The playlist texts parsed and rewritten.                                *)

\* The URLs of the playlist, as TestParseM3U8WithKey's, one directory
\* below, and one whose path climbs above the root of its host.
Bases ==
    { <<"https:", "//", "a", "/", "path", "/", "playlist", ".m3u8">>,
      <<"https:", "//", "a", "/", "path", "/", "sub", "/", "playlist", ".m3u8">>,
      <<"https:", "//", "a", "/", "..", "/", "..", "/", "playlist", ".m3u8">> }

keyLine == <<"#", "EXT-X-KEY", ":", "METHOD=AES-128", ",", "URI=\"", "encryption", ".key", "\"">>

segmentLine == <<"segment", ".ts">>

highLine == <<"high", ".m3u8">>

queryLine == <<"high", ".m3u8", "?", "q">>

\* A rendition with its playlist and a second URI attribute, an absolute
\* URL.
mediaLine ==
    <<"#", "EXT-X-MEDIA", ":", "URI=\"", "high", ".m3u8", "?", "q", "\"", ",",
      "URI=\"", "https:", "//", "a", "/", "path", "/", "encryption", ".key", "\"">>

commentLine == <<"#", "EXTINF", ":", "10.0", ",">>

indentedLine == <<" ">> \o commentLine

\* The lines a playlist is made of: blank and white, comments, bare
\* references of every form resolveURL tells apart, and tag lines.
Lines ==
    { <<>>, <<" ">>, commentLine, indentedLine,
      segmentLine, segmentLine \o <<" ">>,
      <<"..", "/", "segment", ".ts">>,
      <<"/", "abs", "/", "segment", ".ts">>,
      <<"https:", "//", "b", "/", "segment", ".ts">>,
      <<"https:", "//", "b", "/", "..", "/", "..", "/", "segment", ".ts">>,
      <<"//", "b", "/", "segment", ".ts">>,
      <<"segment", "%zz", ".ts">>,
      highLine, queryLine,
      keyLine, mediaLine,
      <<"#", "EXT-X-SESSION-DATA", ":", "URI=\"", "encryption", ".key", "\"">>,
      <<"#", "EXT-X-KEY", ":", "URI=\"", "encryption", ".key">> }

\* The lines of one playlist.
MaxLines == 2

Docs == UNION { [1..n -> Lines] : n \in 0..MaxLines }

----------------------------------------------------------------------------
(* internal/downloader: ParseM3U8 on the text of a playlist *)

\* containsURL's tag names
urlTags == {"EXT-X-KEY", "EXT-X-MEDIA", "EXT-X-MAP", "EXT-X-I-FRAME-STREAM-INF"}

containsURL(line) == \E tag \in urlTags : Contains(line, tag)

\* The mutant of extractURLsFromTag that stops after the first value.
extractFirstURLFromTag(line) ==
    LET idx == Index(line, "URI=\"") IN
    IF idx = 0 THEN <<>>
    ELSE LET rest   == SubSeq(line, idx + 1, Len(line))
             endIdx == Index(rest, "\"")
         IN  IF endIdx = 0 THEN <<>> ELSE << SubSeq(rest, 1, endIdx - 1) >>

\* extractURLsFromTag: the values between each URI=" and the next quote
RECURSIVE extractURLsFromTag(_)
extractURLsFromTag(line) ==
    LET idx == Index(line, "URI=\"") IN
    IF idx = 0 THEN <<>>
    ELSE LET rest   == SubSeq(line, idx + 1, Len(line))
             endIdx == Index(rest, "\"")
         IN  IF endIdx = 0 THEN <<>>
             ELSE << SubSeq(rest, 1, endIdx - 1) >>
                  \o extractURLsFromTag(SubSeq(rest, endIdx + 1, Len(rest)))

\* Every text resolveURL is given for a line.
LineRefs(l) ==
    LET urls == extractURLsFromTag(l) IN
    {l, TrimSpace(l)} \cup {urls[i] : i \in 1..Len(urls)}

TxtRefs == UNION {LineRefs(l) : l \in Lines}

\* resolveURL and the URL GetLocalPath reads, on the texts of the run.
resolvedURL == [b \in Bases |-> [r \in TxtRefs |-> resolveURL(b, r)]]

TxtURLTexts == Bases \cup {resolvedURL[b][r] : b \in Bases, r \in TxtRefs}

localURL == [t \in TxtURLTexts |-> URLOf(t)]

TxtURLs == {localURL[t] : t \in TxtURLTexts}

\* strings.HasSuffix(text, ".m3u8") || strings.Contains(text, ".m3u8?")
looksLikeM3U8(text) ==
    \/ HasSuffix(text, ".m3u8")
    \/ \E k \in 1..(Len(text) - 1) : text[k] = ".m3u8" /\ text[k + 1] = "?"

\* The loop over the values of one tag line.
RECURSIVE parseTagURLs(_, _, _)
parseTagURLs(m, b, urls) ==
    IF urls = <<>> THEN m
    ELSE LET u        == Head(urls)
             resolved == resolvedURL[b][u]
         IN  parseTagURLs(
                 [m EXCEPT !.URLs = Append(@, resolved),
                           !.IsM3U8 = IF ~HasSuffix(u, ".m3u8")
                                      THEN With(@, resolved, FALSE) ELSE @],
                 b, Tail(urls))

\* One iteration of ParseM3U8's scanner loop.
parseLine(m, b, text) ==
    LET line == TrimSpace(text)
        m1   == [m EXCEPT !.n = @ + 1]
    IN  IF line = <<>> \/ (HasPrefix(line, "#") /\ ~containsURL(line)) THEN m1
        ELSE IF HasPrefix(line, "#")
        THEN parseTagURLs(m1, b, extractURLsFromTag(line))
        ELSE LET resolved == resolvedURL[b][line] IN
             [m1 EXCEPT !.URLs = Append(@, resolved),
                        !.IsM3U8 = With(@, resolved, looksLikeM3U8(line))]

\* The references one iteration resolves.
parseRefs(text) ==
    LET line == TrimSpace(text) IN
    IF line = <<>> \/ (HasPrefix(line, "#") /\ ~containsURL(line)) THEN {}
    ELSE IF HasPrefix(line, "#")
    THEN LET urls == extractURLsFromTag(line) IN {urls[i] : i \in 1..Len(urls)}
    ELSE {line}

----------------------------------------------------------------------------
(* internal/downloader: RewriteM3U8URLs *)

\* FileSystem.GetRelativePath(fromURL, toURL), the URLs given as texts, on
\* the state st of the mapper and of the observers: GetLocalPath(fromURL),
\* GetLocalPath(toURL), then the relative path.
GetRelativePath(st, h, fl, sep, fromURL, toURL) ==
    LET return(from, to, a, c) ==
            [ret |-> relativePath(a.path, c.path, sep),
             st  |-> [st EXCEPT !.urlToPath = c.urlToPath,
                                !.pathsInUse = c.pathsInUse,
                                !.retLog = Logged(Logged(@, from, a.path), to, c.path)]]
        second(from, to, a) ==
            return(from, to, a, GetLocalPath(a.urlToPath, a.pathsInUse, h, fl, to))
        first(from, to) ==
            second(from, to, GetLocalPath(st.urlToPath, st.pathsInUse, h, fl, from))
    IN  first(localURL[fromURL], localURL[toURL])

Resolved(st, b, ref) ==
    [st EXCEPT !.resLog = @ \cup {[ref |-> ref, out |-> resolvedURL[b][ref],
                                   by |-> "rewrite", line |-> st.line]}]

containsURI(line) == Contains(line, "URI=\"")

\* rewriteTagLine's loop on its result text: the text it returns and the
\* state.
RECURSIVE rewriteTagLine(_, _, _, _, _, _)
rewriteTagLine(resultText, sourceURL, st, h, fl, sep) ==
    LET uriStart == Index(resultText, "URI=\"")
        rest     == SubSeq(resultText, uriStart + 1, Len(resultText))
        uriEnd   == Index(rest, "\"")
        after    == SubSeq(rest, uriEnd, Len(rest))
        replaced(r) ==
            IF r.ret = <<>>
            THEN rewriteTagLine(after, sourceURL, r.st, h, fl, sep)
            ELSE [text |-> SubSeq(resultText, 1, uriStart) \o r.ret[1] \o after,
                  st   |-> r.st]
        rewritten(value) ==
            replaced(GetRelativePath(Resolved(st, sourceURL, value), h, fl, sep,
                                     sourceURL, resolvedURL[sourceURL][value]))
    IN  IF uriStart = 0 \/ uriEnd = 0 THEN [text |-> resultText, st |-> st]
        ELSE rewritten(SubSeq(rest, 1, uriEnd - 1))

\* rewriteSegmentLine
rewriteSegmentLine(line, sourceURL, st, h, fl, sep) ==
    LET replaced(r) == [text |-> IF r.ret = <<>> THEN line ELSE r.ret[1], st |-> r.st]
    IN  replaced(GetRelativePath(Resolved(st, sourceURL, line), h, fl, sep,
                                 sourceURL, resolvedURL[sourceURL][line]))

\* One iteration of RewriteM3U8URLs's scanner loop.
rewriteLine(line, sourceURL, st, h, fl, sep) ==
    IF HasPrefix(line, "#")
    THEN IF containsURI(line)
         THEN rewriteTagLine(line, sourceURL, st, h, fl, sep)
         ELSE [text |-> line, st |-> st]
    ELSE IF line # <<>>
    THEN rewriteSegmentLine(line, sourceURL, st, h, fl, sep)
    ELSE [text |-> line, st |-> st]

----------------------------------------------------------------------------
(* Parsing and rewriting the text of one playlist.                         *)

InitTxt ==
    /\ flatten \in BOOLEAN
    /\ urlToPath = <<>>
    /\ pathsInUse = {}
    /\ hash8 = [u \in TxtURLs |-> IF u.host = "a" THEN "h1" ELSE "h2"]
    /\ retLog = <<>>
    /\ concurrency = 0
    /\ rewriteURLs = TRUE
    /\ include = {}
    /\ exclude = {}
    /\ web = <<>>
    /\ visited = {}
    /\ gs = <<>>
    /\ pools = <<>>
    /\ fetchCount = <<>>
    /\ failed = {}
    /\ written = {}
    /\ errLog = <<>>
    /\ disk = <<>>
    /\ writtenAt = <<>>
    /\ result = <<>>
    /\ pathSep = "/"
    /\ relPending = <<>>
    /\ relLog = <<>>
    /\ base \in Bases
    /\ doc \in Docs
    /\ parsed = NoDocument
    /\ outLines = <<>>
    /\ resLog = {}
    /\ locks = NoLocks
    /\ filterLog = <<>>

\* ParseM3U8(content, baseURL): one iteration of its loop
ParseLine ==
    /\ parsed.n < Len(doc)
    /\ LET text == doc[parsed.n + 1] IN
       /\ parsed' = parseLine(parsed, base, text)
       /\ resLog' = resLog \cup {[ref |-> r, out |-> resolvedURL[base][r],
                                 by |-> "parse", line |-> parsed.n + 1] :
                                    r \in parseRefs(text)}
    /\ UNCHANGED <<fsVars, cfgVars, filterVars, lockVars, crawlVars, relVars, base, doc, outLines>>

\* RewriteM3U8URLs(content, sourceURL, fs) after the parse, as downloadM3U8
\* calls it: one iteration of its loop
RewriteLine ==
    /\ parsed.n = Len(doc)
    /\ Len(outLines) < Len(doc)
    /\ \E r \in { rewriteLine(doc[Len(outLines) + 1], base,
                             [urlToPath |-> urlToPath, pathsInUse |-> pathsInUse,
                              retLog |-> retLog, resLog |-> resLog,
                              line |-> Len(outLines) + 1],
                             hash8, flatten, pathSep) } :
           /\ outLines' = Append(outLines, r.text)
           /\ urlToPath' = r.st.urlToPath
           /\ pathsInUse' = r.st.pathsInUse
           /\ retLog' = r.st.retLog
           /\ resLog' = r.st.resLog
    /\ UNCHANGED <<flatten, hash8, cfgVars, filterVars, lockVars, crawlVars, relVars, base, doc, parsed>>

NextTxt == ParseLine \/ RewriteLine

SpecTxt == InitTxt /\ [][NextTxt]_vars

----------------------------------------------------------------------------
(* internal/downloader: shouldDownload on the text of a URL.  The crawl    *)
(* above filters URLs that have no query, by the extension of their last   *)
(* path segment; here the URL is the text filterURLs hands over.           *)

\* The tokens of a URL text that begin with ".".
DotToks == {".ts", ".TS", ".key", ".m3u8", ".2"}

\* strings.ToLower
ToLower(s) == [i \in 1..Len(s) |-> IF s[i] = ".TS" THEN ".ts" ELSE s[i]]

\* filepath.Ext(path): the suffix from the last "." of the element after
\* the last separator, empty when that element has no ".".
filepathExt(path) ==
    LET dots == {i \in 1..Len(path) :
                    /\ path[i] \in DotToks
                    /\ \A j \in i..Len(path) : path[j] \notin {"/", "//"}}
    IN  IF dots = {} THEN <<>>
        ELSE SubSeq(path, CHOOSE i \in dots : \A j \in dots : j <= i, Len(path))

\* shouldDownload's ext: strings.ToLower(filepath.Ext(urlStr)), cut at the
\* first "?"
extOfURL(urlStr) ==
    LET cut(ext) == Cat(Before(ext, Index(ext, "?")))
    IN  cut(ToLower(filepathExt(urlStr)))

\* Downloader.shouldDownload on a URL text
shouldDownloadURL(inc, exc, urlStr) ==
    LET decide(ext) ==
            IF \E e \in exc : extMatches(ext, e) THEN FALSE
            ELSE IF inc = {} THEN TRUE
            ELSE \E e \in inc : extMatches(ext, e)
    IN  decide(extOfURL(urlStr))

\* The URLs filtered: a segment without and with a query, with a query
\* that holds a "." or a "/", with an upper-case extension and without an
\* extension, a key and a playlist.
FilterURLs ==
    LET dir == <<"https:", "//", "a", "/", "v", "/">> IN
    { dir \o <<"seg", ".ts">>,
      dir \o <<"seg", ".ts", "?", "v=1">>,
      dir \o <<"seg", ".ts", "?", "v=1", ".2">>,
      dir \o <<"seg", ".ts", "?", "p=a", "/", "b">>,
      dir \o <<"seg", ".TS">>,
      dir \o <<"seg">>,
      dir \o <<"k", ".key">>,
      dir \o <<"A", ".m3u8">> }

\* Config.Include and Config.Exclude, with and without the leading dot.
IncludeLists == { {}, {".ts"}, {"ts"}, {".ts", ".key"} }

ExcludeLists == { {}, {".ts"}, {"key"}, {".ts", ".m3u8"} }

\* The shouldDownload calls of one run.
MaxFilterCalls == 2

InitFilter ==
    /\ flatten = FALSE
    /\ urlToPath = <<>>
    /\ pathsInUse = {}
    /\ hash8 = <<>>
    /\ retLog = <<>>
    /\ concurrency = 0
    /\ rewriteURLs = FALSE
    /\ include \in IncludeLists
    /\ exclude \in ExcludeLists
    /\ web = <<>>
    /\ visited = {}
    /\ gs = <<>>
    /\ pools = <<>>
    /\ fetchCount = <<>>
    /\ failed = {}
    /\ written = {}
    /\ errLog = <<>>
    /\ disk = <<>>
    /\ writtenAt = <<>>
    /\ result = <<>>
    /\ pathSep = "/"
    /\ relPending = <<>>
    /\ relLog = <<>>
    /\ base = <<>>
    /\ doc = <<>>
    /\ parsed = NoDocument
    /\ outLines = <<>>
    /\ resLog = {}
    /\ locks = NoLocks
    /\ filterLog = <<>>

\* filterURLs: d.shouldDownload(urlStr) for the next URL of the list
ShouldDownload ==
    /\ Len(filterLog) < MaxFilterCalls
    /\ \E u \in FilterURLs :
           filterLog' = Append(filterLog,
                               [url |-> u, keep |-> shouldDownloadURL(include, exclude, u)])
    /\ UNCHANGED <<fsVars, cfgVars, crawlVars, relVars, txtVars, lockVars>>

NextFilter == ShouldDownload

SpecFilter == InitFilter /\ [][NextFilter]_vars

----------------------------------------------------------------------------
(* Properties of the path mapper *)

\* C14: a relative path GetRelativePath returns has forward slashes only
\* and leads from the directory of from's assigned path to to's assigned
\* path; a target in that directory gives its file name, a target one
\* directory above gives "../" and its file name.
C14_RelativePathLeads ==
    \A i \in 1..Len(relLog) :
        LET c       == relLog[i]
            fromDir == DirOf(urlToPath[c.from])
            toPath  == urlToPath[c.to]
            name    == SegText(toPath[Len(toPath)])
        IN  c.ret # <<>> =>
              /\ \A k \in 1..Len(c.ret[1]) : c.ret[1][k] # "\\"
              /\ Join(fromDir, TextPath(c.ret[1])) = toPath
              /\ DirOf(toPath) = fromDir => c.ret[1] = name
              /\ (fromDir # <<>> /\ DirOf(toPath) = DirOf(fromDir))
                    => c.ret[1] = <<"..", "/">> \o name

\* C14 witness: on a build with another separator, from the playlist one
\* directory below to the segment, hierarchical mode.
C14_Witness ==
    /\ pathSep = "\\" /\ ~flatten
    /\ \E i \in 1..Len(relLog) :
          relLog[i] = [from |-> rSub, to |-> rSegment,
                       ret |-> << <<"..", "/", "segment", ".ts">> >>]

\* A step assigns a path to u.
Assigned(u) == u \notin DOMAIN urlToPath /\ u \in DOMAIN urlToPath'

\* The output root followed by the basename of u's path.
BasenamePath(u) == OutputDir \o <<u.path[Len(u.path)]>>

\* C15: a URL assigned without a collision gets, in hierarchical mode, the
\* output root followed by its path, directory for directory, and in
\* flattened mode the output root followed by the basename of its path.
C15_FreshPathMirrors ==
    [][\A u \in FsURLs : Assigned(u) =>
          /\ (~flatten /\ (OutputDir \o u.path) \notin pathsInUse)
                => urlToPath'[u] = OutputDir \o u.path
          /\ (flatten /\ u.path # <<>> /\ BasenamePath(u) \notin pathsInUse)
                => urlToPath'[u] = BasenamePath(u)]_vars

\* C15 witness: a URL with a directory in its path is assigned in
\* flattened mode after a URL of another name.
C15_Witness ==
    /\ flatten
    /\ \E u, v \in DOMAIN urlToPath :
          /\ Len(u.path) = 2 /\ urlToPath[u] = BasenamePath(u)
          /\ v.path # <<>> /\ urlToPath[v] = BasenamePath(v) /\ urlToPath[v] # urlToPath[u]

\* The basename path with "_" and the hash prefix before the extension, and
\* with the counter n after it.
HashedPath(u) ==
    LET f == u.path[Len(u.path)] IN
    OutputDir \o <<Seg(f.stem \o <<"_", hash8[u]>>, f.ext)>>

CountedPath(u, n) ==
    LET f == u.path[Len(u.path)] IN
    OutputDir \o <<Seg(f.stem \o <<"_", hash8[u], "_", CounterText(n)>>, f.ext)>>

\* C16: in flattened mode an assignment changes no earlier assignment and
\* never returns a claimed path; when the basename path is claimed the URL
\* gets the hashed path, and when that is claimed too the path with the
\* first counter, from 1, whose path is unclaimed.
C16_CollisionResolved ==
    [][flatten =>
         \A u \in FsURLs : Assigned(u) =>
            /\ \A v \in DOMAIN urlToPath : urlToPath'[v] = urlToPath[v]
            /\ urlToPath'[u] \notin pathsInUse
            /\ (u.path # <<>> /\ BasenamePath(u) \in pathsInUse) =>
                  IF HashedPath(u) \notin pathsInUse
                  THEN urlToPath'[u] = HashedPath(u)
                  ELSE \E n \in 1..9 :
                          /\ urlToPath'[u] = CountedPath(u, n)
                          /\ \A m \in 1..(n - 1) : CountedPath(u, m) \in pathsInUse]_vars

\* C16 witness: the basename path, the hashed path and the path with
\* counter 1 were claimed, and a URL got the path with counter 2.
C16_Witness ==
    /\ flatten
    /\ \E u \in DOMAIN urlToPath :
          /\ u.path # <<>> /\ urlToPath[u] = CountedPath(u, 2)
          /\ {BasenamePath(u), HashedPath(u), CountedPath(u, 1)} \subseteq pathsInUse

----------------------------------------------------------------------------
(* Properties of what the crawl writes *)

\* The playlists on the sink, as the paths that hold them.
PlaylistFiles == {f \in DOMAIN disk : disk[f].url \in DOMAIN web}

\* C19: with rewriting disabled no goroutine ever runs the rewriter and
\* every playlist on the sink holds exactly the fetched lines; with
\* rewriting enabled it holds, line for line, the rewriter's output: the
\* line with the relative path from the playlist's directory to the path
\* of the line's URL.
C19_WrittenBytes ==
    /\ ~rewriteURLs =>
          /\ \A id \in DOMAIN gs : gs[id].pc # "rewrite" /\ gs[id].out = <<>>
          /\ \A f \in PlaylistFiles :
                disk[f].data = [i \in 1..Len(web[disk[f].url]) |->
                                   [line |-> web[disk[f].url][i], rel |-> <<>>]]
    /\ rewriteURLs =>
          \A f \in PlaylistFiles :
             LET p == disk[f].url IN
             /\ Len(disk[f].data) = Len(web[p])
             /\ \A i \in 1..Len(web[p]) :
                   /\ disk[f].data[i].line = web[p][i]
                   /\ web[p][i].ref \in DOMAIN urlToPath
                   /\ disk[f].data[i].rel = Rel(DirOf(urlToPath[p]), urlToPath[web[p][i].ref])

\* C19 witness: a crawl of the nested web succeeded with rewriting disabled.
C19_Witness ==
    /\ ~rewriteURLs /\ Succeeded /\ concurrency > 0
    /\ web = WebNested
    /\ {uRoot, uA} \subseteq written

----------------------------------------------------------------------------
(* Properties of the playlist text *)

\* A text as it stands in the path of a URL text: spaces and stray percent
\* signs percent-encoded.
InPath(s) ==
    [i \in 1..Len(s) |-> IF s[i] = " " THEN "%20"
                         ELSE IF s[i] = "%zz" THEN "%25zz" ELSE s[i]]

\* base's scheme and host with the join of the directory of base's path
\* and ref, "." and ".." collapsed.
DirectoryJoin(b, ref) ==
    LET u   == urlParse(b)
        dir == SubSeq(u.path, 1, LastIndex(u.path, "/") - 1)
        es  == SelectSeq(elements(dir \o <<"/">> \o ref), LAMBDA e : e # <<>>)
    IN  <<u.scheme, "//", u.host, "/">> \o InPath(JoinToks(removeDots(es, <<>>), "/"))

\* The URL the three rules give for ref under base b.
AsStated(b, ref) ==
    LET u == urlParse(b) IN
    IF ~urlParse(ref).ok THEN DirectoryJoin(b, ref)
    ELSE IF HasPrefix(ref, "https:") THEN ref
    ELSE IF HasPrefix(ref, "/") \/ HasPrefix(ref, "//")
    THEN <<u.scheme, "//", u.host>> \o InPath(ref)
    ELSE DirectoryJoin(b, ref)

\* C11: resolveURL(base, ref) returns ref itself when ref has a scheme,
\* base's scheme and host with ref as the path when ref begins with "/",
\* and otherwise, as for a reference that cannot be parsed, base's scheme
\* and host with the join of the directory of base's path and ref, "." and
\* ".." collapsed.
C11_ResolvedAsStated ==
    \A c \in resLog : c.out = AsStated(base, c.ref)

\* The four reference-bearing tags.
ReferenceTags == {"EXT-X-KEY", "EXT-X-MEDIA", "EXT-X-MAP", "EXT-X-I-FRAME-STREAM-INF"}

\* The values of the URI="..." occurrences of a text from position i on, in
\* order.
RECURSIVE URIValuesFrom(_, _)
URIValuesFrom(s, i) ==
    IF i > Len(s) THEN <<>>
    ELSE IF s[i] = "URI=\"" /\ \E j \in (i + 1)..Len(s) : s[j] = "\""
    THEN LET j == CHOOSE j \in (i + 1)..Len(s) :
                      s[j] = "\"" /\ \A k \in (i + 1)..(j - 1) : s[k] # "\""
         IN  << SubSeq(s, i + 1, j - 1) >> \o URIValuesFrom(s, i + 1)
    ELSE URIValuesFrom(s, i + 1)

\* The references of a line, read as ParseM3U8 reads it, without the
\* whitespace around it: the line itself when it is not blank and does not
\* start with "#", the values of its URI="..." occurrences when it starts
\* with "#" and names a reference-bearing tag.
ReferencesOf(text) ==
    LET s == TrimSpace(text) IN
    IF s = <<>> THEN <<>>
    ELSE IF s[1] # "#" THEN <<s>>
    ELSE IF \E tag \in ReferenceTags : Contains(s, tag) THEN URIValuesFrom(s, 1)
    ELSE <<>>

\* The references of the first n lines of the playlist, resolved.
RECURSIVE ResolvedReferences(_)
ResolvedReferences(n) ==
    IF n = 0 THEN <<>>
    ELSE LET refs == ReferencesOf(doc[n]) IN
         ResolvedReferences(n - 1) \o [i \in 1..Len(refs) |-> resolveURL(base, refs[i])]

\* C12: the list ParseM3U8 returns holds, in the order of the source text
\* and resolved against the base URL, one reference for every non-blank
\* line not starting with "#" and one for every URI="..." occurrence on a
\* line naming one of the four reference-bearing tags, and nothing else.
C12_ReferencesInOrder ==
    parsed.URLs = ResolvedReferences(parsed.n)

\* A key tag and a segment line have been parsed into two references, the
\* key's beside the playlist.
C12_Witness ==
    /\ doc = <<keyLine, segmentLine>>
    /\ parsed.n = 2
    /\ Len(parsed.URLs) = 2
    /\ parsed.URLs[1] = <<"https:", "//", "a", "/", "path", "/", "encryption", ".key">>

\* The bare reference lines among the lines parsed, without the whitespace
\* around them.
BareReferences ==
    { TrimSpace(doc[i]) : i \in { j \in 1..parsed.n :
                                    /\ TrimSpace(doc[j]) # <<>>
                                    /\ TrimSpace(doc[j])[1] # "#" } }

\* The text ends in ".m3u8" or holds ".m3u8" immediately followed by "?".
NestedByText(s) ==
    \/ s[Len(s)] = ".m3u8"
    \/ \E k \in 1..(Len(s) - 1) : s[k] = ".m3u8" /\ s[k + 1] = "?"

\* C13: once the playlist is parsed, a bare reference line is classified as
\* a nested playlist if and only if its text before resolution ends in
\* ".m3u8" or contains ".m3u8" immediately followed by "?".
C13_NestedIffSuffix ==
    parsed.n = Len(doc) =>
        \A s \in BareReferences :
            /\ resolveURL(base, s) \in DOMAIN parsed.IsM3U8
            /\ parsed.IsM3U8[resolveURL(base, s)] = NestedByText(s)

\* The relative local path of the resolved URL of a reference of the
\* playlist, as text: from the directory of the playlist's local path to
\* the local path of the reference's URL.
RelativeLocalPath(ref) ==
    LET from == GetLocalPath(urlToPath, pathsInUse, hash8, flatten, URLOf(base)).path
        to   == GetLocalPath(urlToPath, pathsInUse, hash8, flatten,
                             URLOf(resolveURL(base, ref))).path
    IN  relativePath(from, to, pathSep)

\* A text with the value of every URI="..." occurrence from position i on
\* replaced by its relative local path.
RECURSIVE EveryURIReplaced(_, _)
EveryURIReplaced(s, i) ==
    IF i > Len(s) THEN <<>>
    ELSE IF s[i] = "URI=\"" /\ \E j \in (i + 1)..Len(s) : s[j] = "\""
    THEN LET j == CHOOSE j \in (i + 1)..Len(s) :
                      s[j] = "\"" /\ \A k \in (i + 1)..(j - 1) : s[k] # "\""
             rel == RelativeLocalPath(SubSeq(s, i + 1, j - 1))
         IN  <<s[i]>> \o (IF rel = <<>> THEN SubSeq(s, i + 1, j - 1) ELSE rel[1])
             \o EveryURIReplaced(s, j)
    ELSE <<s[i]>> \o EveryURIReplaced(s, i + 1)

\* C17: a tag line holding several URI="..." attributes is written with the
\* value of every one of them replaced by the relative local path of that
\* value's resolved URL, and the rest of the line unchanged.
C17_EveryURIRewritten ==
    \A i \in 1..Len(outLines) :
        (HasPrefix(doc[i], "#") /\ Len(URIValuesFrom(doc[i], 1)) > 1)
            => outLines[i] = EveryURIReplaced(doc[i], 1)

\* C18: Rewrite emits one output line per input line, in order; a line that
\* is blank or a comment or tag without a URI attribute is emitted with its
\* text unchanged, and a bare reference line is replaced as a whole by the
\* relative local path of its resolved URL.  Lines are told apart as
\* ParseM3U8 tells them apart.
C18_LineForLine ==
    /\ Len(outLines) <= Len(doc)
    /\ \A i \in 1..Len(outLines) :
           LET s == TrimSpace(doc[i]) IN
           IF s = <<>> \/ (s[1] = "#" /\ URIValuesFrom(s, 1) = <<>>)
           THEN outLines[i] = doc[i]
           ELSE s[1] # "#" =>
                    outLines[i] = (IF RelativeLocalPath(s) = <<>> THEN doc[i]
                                   ELSE RelativeLocalPath(s)[1])

----------------------------------------------------------------------------
(* Properties of the worker pools *)

\* C30: for every configured concurrency, zero included, Download does not
\* return success while a filter-passing reference of a fetched playlist has
\* been neither fetched nor failed.
C30_SuccessNeedsWorkers ==
    Succeeded =>
        \A p \in FetchedPlaylists :
            \A u \in KeptRefs(p) : u \in DOMAIN fetchCount \/ u \in failed

\* C22: when Download returns an error, it is the error of the failure that
\* happened first in time during the crawl.
C22_FirstFailureReturned ==
    (Returned /\ ~result[1].ok) =>
        result[1].err = << [url |-> errLog[1].url, kind |-> errLog[1].kind] >>

\* The goroutines inside WriteFile's file operations.
Writing == {id \in DOMAIN gs : gs[id].pc = "io"}

\* C29: no two WriteFile calls in progress at the same time use the same
\* temporary file path, and the temporary path of a write in progress is
\* never the final path assigned to a URL.
C29_TmpPathsApart ==
    /\ \A i, j \in Writing :
           i # j => tmpPath(urlToPath[gs[i].url]) # tmpPath(urlToPath[gs[j].url])
    /\ \A i \in Writing :
           \A u \in DOMAIN urlToPath : tmpPath(urlToPath[gs[i].url]) # urlToPath[u]

----------------------------------------------------------------------------
(* Properties of the parsed document and of the rewritten lines *)

\* The values of the URI attributes of the reference-bearing tag lines among
\* the lines parsed.
TagReferences ==
    UNION { {URIValuesFrom(TrimSpace(doc[i]), 1)[k] :
                 k \in 1..Len(URIValuesFrom(TrimSpace(doc[i]), 1))} :
            i \in { j \in 1..parsed.n :
                      /\ TrimSpace(doc[j]) # <<>>
                      /\ TrimSpace(doc[j])[1] = "#"
                      /\ \E tag \in ReferenceTags : Contains(TrimSpace(doc[j]), tag) } }

\* C27: once the playlist is parsed, every reference extracted from a
\* reference-bearing tag is classified as not a nested playlist, whatever
\* its suffix and whatever the other lines of the document are.
C27_TagReferenceNotNested ==
    parsed.n = Len(doc) =>
        \A v \in TagReferences :
            resolveURL(base, v) \in DOMAIN parsed.IsM3U8
                => ~parsed.IsM3U8[resolveURL(base, v)]

\* The references ParseM3U8 extracted from line i, and those the Rewriter
\* resolved and mapped on line i.
ExtractedOn(i) == {c.ref : c \in {d \in resLog : d.by = "parse" /\ d.line = i}}

RewrittenOn(i) == {c.ref : c \in {d \in resLog : d.by = "rewrite" /\ d.line = i}}

\* C25: the Rewriter and ParseM3U8 classify lines identically: on every
\* line the Rewriter has passed, the references it rewrote are the
\* references ParseM3U8 extracted from that line.
C25_SameClassification ==
    \A i \in 1..Len(outLines) : RewrittenOn(i) = ExtractedOn(i)

\* The relative path of some reference of line i cannot be computed.
NoRelativePath(i) ==
    IF HasPrefix(doc[i], "#")
    THEN \E k \in 1..Len(URIValuesFrom(doc[i], 1)) :
             RelativeLocalPath(URIValuesFrom(doc[i], 1)[k]) = <<>>
    ELSE doc[i] # <<>> /\ RelativeLocalPath(doc[i]) = <<>>

\* C26: a line with a reference whose relative path cannot be computed is
\* emitted with its original text unchanged, a tag line with URI attributes
\* as well as a bare reference line.
C26_UnmappableLineKept ==
    \A i \in 1..Len(outLines) : NoRelativePath(i) => outLines[i] = doc[i]

\* A local path below the output root.
InsideOutputDir(p) ==
    /\ Len(p) > Len(OutputDir)
    /\ SubSeq(p, 1, Len(OutputDir)) = OutputDir
    /\ \A i \in 1..Len(p) : p[i] # DotDot

\* C28: every local path the path mapper assigns to a URL the playlist
\* references lies inside the output root.
C28_PathInsideOutputDir ==
    \A u \in DOMAIN urlToPath :
        u # URLOf(base) => InsideOutputDir(urlToPath[u])

----------------------------------------------------------------------------
(* Properties of the tasks of a crawl *)

\* Task t is task f or an ancestor of it: f runs in t's pool, or in the
\* pool of a task that does.
Above(t, f) == Len(t) <= Len(f) /\ SubSeq(f, 1, Len(t)) = t

\* The playlist tasks whose downloadURLs returned without error and whose
\* WriteFile has not returned yet.
AboutToWrite ==
    {id \in DOMAIN gs : gs[id].isM3U8 /\ gs[id].pc \in {"rewrite", "write", "io"}}

\* C23: a playlist task that got as far as writing its playlist has no
\* failed task in its own worker pool nor below it: a failure in a task
\* prevents the write of every playlist on the path from it up to the root.
C23_NoWriteAboveFailure ==
    \A id \in AboutToWrite :
        \A i \in 1..Len(errLog) : ~Above(TaskOf(gs, id), errLog[i].task)

\* C23 witness: in the nested web the fetch of the nested playlist's key
\* failed two pools below the root, Download returned, the root's segment
\* was written and neither playlist was.
C23_Witness ==
    /\ web = WebNested /\ Returned
    /\ \E i \in 1..Len(errLog) : errLog[i].url = uK /\ Len(errLog[i].task) = 5
    /\ uS1 \in written
    /\ uRoot \notin written /\ uA \notin written

\* C21: with a Fetcher and a Sink that always return, Download eventually
\* returns, for every web, cycles included, and whether or not workers exit
\* early on an error: no worker blocks forever, no wait lasts forever.
C21_DownloadReturns == <>Returned

\* C21 witness: Download returned from the crawl of playlists that
\* reference each other in a cycle, after a worker exited on an error.
C21_Witness ==
    /\ web = WebCycle /\ Returned /\ concurrency = MaxConcurrency
    /\ errLog # <<>>
    /\ DOMAIN pools = {}

----------------------------------------------------------------------------
(* Properties of the locks *)

\* C24: a goroutine holds d.visitedLock only inside isVisited and
\* markVisited and fs.mu only inside GetLocalPath, each for the map read or
\* update; no goroutine holds either inside a Fetcher call or a file
\* operation of WriteFile (directory creation, temp-file write, rename).
C24_LocksAroundMapsOnly ==
    \A id \in DOMAIN gs :
        /\ id \in locks.visitedLock => gs[id].pc \in {"isVisited", "markVisited"}
        /\ id \in locks.mu => gs[id].pc = "GetLocalPath"
        /\ gs[id].pc \in {"Fetch", "MkdirAll", "os.WriteFile", "Rename"}
               => id \notin locks.visitedLock \cup locks.mu

\* C24 witness: one goroutine is inside a Fetcher call or a rename while
\* another goroutine holds one of the locks.
C24_Witness ==
    \E i, j \in DOMAIN gs :
        /\ i # j
        /\ gs[i].pc \in {"Fetch", "Rename"}
        /\ j \in locks.visitedLock \cup locks.mu

----------------------------------------------------------------------------
(* Properties of nested playlists and of the filter *)

\* C31: with a positive concurrency, when Download returns success every
\* filter-passing URL that a fetched playlist classifies as a nested
\* playlist has been parsed and its own filter-passing references crawled,
\* also when another playlist names the URL in a tag.
C31_NestedPlaylistCrawled ==
    (Succeeded /\ concurrency > 0) =>
        \A p \in FetchedPlaylists :
            \A u \in KeptRefs(p) \cap DOMAIN web :
                IsM3U8(web[p], u) =>
                    \A v \in KeptRefs(u) : v \in DOMAIN fetchCount

\* The path of a URL text: what precedes the query.
PathText(urlStr) == Before(urlStr, Index(urlStr, "?"))

\* C33: two URLs with the same path get the same filter decision, whatever
\* their query strings hold: the extension compared is that of the path.
C33_QueryIgnored ==
    \A i, j \in 1..Len(filterLog) :
        PathText(filterLog[i].url) = PathText(filterLog[j].url)
            => filterLog[i].keep = filterLog[j].keep

\* The extension of a URL's path, in lower case: from the last "." of the
\* last element of the path, empty when that element has none.
Extension(urlStr) ==
    LET path == PathText(urlStr)
        last == SubSeq(path, LastIndex(path, "/") + 1, Len(path))
        dot  == CHOOSE i \in 0..Len(last) :
                    /\ i > 0 => last[i] \in DotToks
                    /\ \A j \in (i + 1)..Len(last) : last[j] \notin DotToks
    IN  IF dot = 0 THEN "" ELSE Cat(ToLower(SubSeq(last, dot, Len(last))))

\* An extension matches an entry of a list, written with or without its
\* leading dot.
Matches(ext, list) == \E e \in list : ext = e \/ ext = "." \o e

\* C32: the filter drops a reference whose extension matches an exclude
\* entry, even when it also matches an include entry; otherwise keeps it
\* when the include list is empty; otherwise keeps it exactly when its
\* extension matches an include entry.
C32_ExcludeThenInclude ==
    \A i \in 1..Len(filterLog) :
        filterLog[i].keep =
            (IF Matches(Extension(filterLog[i].url), exclude) THEN FALSE
             ELSE IF include = {} THEN TRUE
             ELSE Matches(Extension(filterLog[i].url), include))

\* C32 for the URLs that have no query.
C32_ExcludeThenIncludeNoQuery ==
    \A i \in 1..Len(filterLog) :
        ~Contains(filterLog[i].url, "?") =>
            filterLog[i].keep =
                (IF Matches(Extension(filterLog[i].url), exclude) THEN FALSE
                 ELSE IF include = {} THEN TRUE
                 ELSE Matches(Extension(filterLog[i].url), include))

\* C32 in the crawl: a reference the filter drops is never marked visited,
\* fetched or written.
C32_DroppedUntouched ==
    \A p \in FetchedPlaylists :
        \A u \in Refs(p) \ KeptRefs(p) :
            u \notin visited /\ u \notin DOMAIN fetchCount /\ u \notin written

----------------------------------------------------------------------------
(* Properties of the flattened name of a URL that names no file *)

\* The path of u ends at a slash or is empty.
EndsAtSlash(u) == u.path = <<>> \/ u.path[Len(u.path)] = Empty

\* The file name begins with the 16 characters of u's hash and has the
\* generic extension.
Synthesized(f, u) ==
    /\ f.ext = ".bin"
    /\ Len(f.stem) >= 2
    /\ f.stem[1] = hash8[u]
    /\ f.stem[2] = "+8"

\* C34: in flattened mode every URL whose path ends at a slash, a directory
\* path such as /dir/ included, or is empty has a file name synthesized from
\* the hash of the URL and the generic extension, not the name of a
\* directory of its path.
C34_DirectoryURLHashed ==
    flatten =>
        \A u \in DOMAIN urlToPath :
            EndsAtSlash(u) =>
                Synthesized(urlToPath[u][Len(urlToPath[u])], u)

\* C34, for the path "/" and the empty path only.
C34_NoPathHashed ==
    flatten =>
        \A u \in DOMAIN urlToPath :
            pathBase(u.path) = <<>> =>
                Synthesized(urlToPath[u][Len(urlToPath[u])], u)

====
